---- MODULE Spec2Model ----
(***************************************************************************)
(* A model of the qBittorrent Discord bot's core:                          *)
(*   - the session client   (services/qbittorrent/client.ts),              *)
(*   - the seeding manager  (utils/seedingManager.ts),                     *)
(*   - the progress tracker (bot/handlers/messageHandler.ts).              *)
(*                                                                         *)
(* JavaScript runs one callback at a time; an async function is suspended  *)
(* only at an await of a network call, a message edit or a timer.  Every   *)
(* running async invocation is a task: a stack of frames, one frame per    *)
(* nested async function.  One step of the model delivers one awaited      *)
(* response to a task and then runs that task (operator Run) up to its     *)
(* next suspension point, exactly as the event loop does.  The remote      *)
(* processes a request at the moment its response is delivered.            *)
(***************************************************************************)
EXTENDS Integers, Sequences, FiniteSets, TLC

(* ------------------------------ bounds -------------------------------- *)
\* torrent hashes the remote can hold
Hashes == {"a", "b"}
\* slots for concurrently running async invocations
Tasks == {"t1", "t2", "t3"}
\* session tokens the remote issues in one run
MaxTok == 2
\* Discord messages a follow-up creates in one run
MaxMsg == 2
\* edits of one message with the same content that Discord counts
MaxPush == 2
\* local clock (epoch seconds): first and last value
StartTime == 20
MaxTime == 23

VARIABLES
    cfg,                    \* QBIT_URL, QBIT_USERNAME, QBIT_PASSWORD: set or not
    seedingEnv,             \* process.env.SEEDING_TIME_MULTIPLIER
    sid,                    \* client.ts `sid`: 0 is the empty string
    remote,                 \* qBittorrent's sessions and torrents, Discord's messages
    now,                    \* Math.floor(Date.now() / 1000)
    torrentTimings,         \* seedingManager.ts Map, as its set of entries
    activeTorrentMessages,  \* messageHandler.ts Map, as its set of entries
    started,                \* the seeding manager: "no", "booting", "on", "off"
    pendingDeletions,       \* messageHandler.ts Map, as its set of entries
    pendingSeedStops,       \* messageHandler.ts Map, as its set of entries
    tasks                   \* Tasks -> stack of frames (<<>>: idle)

\* the requests that wait for their confirm or cancel button
pending == <<pendingDeletions, pendingSeedStops>>
vars == <<cfg, seedingEnv, sid, remote, now, torrentTimings,
          activeTorrentMessages, started, pending, tasks>>

(* ------------------------- optional values ---------------------------- *)
\* a JavaScript value that may be undefined: {} or {v}
None == {}
Some(v) == {v}
The(o) == CHOOSE v \in o : TRUE
\* JavaScript truthiness of an optional number
Truthy(o) == o # None /\ The(o) # 0

(* ------------------------- JavaScript Map ----------------------------- *)
\* A Map is modelled as the set of its entries, each carrying its key in `hash`.
MapHas(m, h) == \E e \in m : e.hash = h
MapGet(m, h) == IF MapHas(m, h) THEN Some(CHOOSE e \in m : e.hash = h) ELSE None
MapDelete(m, h) == {e \in m : e.hash # h}
\* set() that adds an entry beside the one the key already has
MapSetBeside(m, e) == m \cup {e}
\* set(key, value)
MapSet(m, e) == MapDelete(m, e.hash) \cup {e}
MapKeys(m) == {e.hash : e \in m}

(* --------------------------- the remote ------------------------------- *)
\* what Discord has seen of the messages it is asked to keep a log of: how
\* often the content of each was set to the completion text, and which had an
\* edit rejected
NoPushes == [completed |-> <<>>, failed |-> {}]
Pushed(r, req, code) ==
    IF req.message \notin DOMAIN r.pushed.completed THEN r
    ELSE [r EXCEPT !.pushed.completed[req.message] =
                       IF req.text = "completed" /\ @ < MaxPush THEN @ + 1 ELSE @,
                   !.pushed.failed =
                       IF code = "err" THEN @ \cup {req.message} ELSE @]

NameOf(h) == "name_" \o h
Progress == {0, 50, 100}    \* percent; `progress >= 1` is 100

\* TorrentInfo, the fields the core reads
Snapshot(h, name, addedOn, progress, state) ==
    [hash |-> h, name |-> name, added_on |-> addedOn, progress |-> progress,
     state |-> state]

RemoteTorrents(r) == {The(r.jobs[h]) : h \in {x \in Hashes : r.jobs[x] # None}}
\* the arrays GET /api/v2/torrents/info can answer with: the torrents in any order
Listings(r) ==
    LET all == RemoteTorrents(r) IN
    {l \in [1..Cardinality(all) -> all] : \A x \in all : \E i \in DOMAIN l : l[i] = x}

(* ------------------------- task machinery ----------------------------- *)
\* The part of the state a running task reads and writes.
Cur == [sid |-> sid, tasks |-> tasks, torrentTimings |-> torrentTimings,
        activeTorrentMessages |-> activeTorrentMessages, started |-> started,
        pendingDeletions |-> pendingDeletions, pendingSeedStops |-> pendingSeedStops,
        cfg |-> cfg, now |-> now, seedingEnv |-> seedingEnv,
        resp |-> [code |-> "none"]]   \* the response being delivered

Commit(S) ==
    /\ sid' = S.sid
    /\ tasks' = S.tasks
    /\ torrentTimings' = S.torrentTimings
    /\ activeTorrentMessages' = S.activeTorrentMessages
    /\ started' = S.started
    /\ pendingDeletions' = S.pendingDeletions
    /\ pendingSeedStops' = S.pendingSeedStops

Depth(S, t) == Len(S.tasks[t])
Top(S, t) == S.tasks[t][Depth(S, t)]
SetTop(S, t, f) == [S EXCEPT !.tasks[t] = [@ EXCEPT ![Len(@)] = f]]
\* `await child(...)`: the caller resumes at `cont` with the child's result in ret
Call(S, t, cont, child) ==
    [S EXCEPT !.tasks[t] = Append([@ EXCEPT ![Len(@)].pc = cont], child)]
\* the top frame returns `v`
Done(S, t, v) == SetTop(S, t, [Top(S, t) EXCEPT !.pc = "done", !.res = v])
\* the top frame sends `req` and is suspended until the response
Await(S, t, wpc, req) == SetTop(S, t, [Top(S, t) EXCEPT !.pc = wpc, !.req = req])
\* a finished child is popped and its result handed to the caller
Return(S, t) ==
    LET st == S.tasks[t]
        n == Len(st)
    IN [S EXCEPT !.tasks[t] =
           [SubSeq(st, 1, n - 1) EXCEPT ![n - 1].ret = st[n].res]]

WaitPCs == {"w_post", "w_req1", "w_req2", "w_sleep", "w_edit", "w_gone",
            "w_followUp", "w_reply", "w_timer"}
NoReq == [kind |-> "none"]
Waiting(stack) == stack # <<>> /\ stack[Len(stack)].pc \in WaitPCs
Finished(stack) == Len(stack) = 1 /\ stack[1].pc = "done"

(* ---------------------- client.ts: login() ---------------------------- *)
Configured(c) == c.url /\ c.user /\ c.pass

loginFrame == [kind |-> "login", pc |-> "start", ret |-> FALSE, res |-> FALSE,
               req |-> NoReq]

\* login that tests the URL alone before it sends the request
loginUrlOnly(S, t) ==
    LET f == Top(S, t) IN
    IF f.pc = "start"
    THEN IF ~S.cfg.url
         THEN Done(S, t, FALSE)
         ELSE Await(S, t, "w_post", [kind |-> "login"])
    ELSE IF S.resp.code = "ok" /\ S.resp.body = "Ok." /\ S.resp.cookie # 0
         THEN Done([S EXCEPT !.sid = S.resp.cookie], t, TRUE)
         ELSE Done(S, t, FALSE)

\* login that empties sid when it fails
loginClearsOnFailure(S, t) ==
    LET f == Top(S, t) IN
    IF f.pc = "start"
    THEN IF ~Configured(S.cfg)
         THEN Done(S, t, FALSE)
         ELSE Await(S, t, "w_post", [kind |-> "login"])
    ELSE IF S.resp.code = "ok" /\ S.resp.body = "Ok." /\ S.resp.cookie # 0
         THEN Done([S EXCEPT !.sid = S.resp.cookie], t, TRUE)
         ELSE Done([S EXCEPT !.sid = 0], t, FALSE)

\* login that takes the answer `Ok.` for a success, SID cookie or not
loginNoCookieCheck(S, t) ==
    LET f == Top(S, t) IN
    IF f.pc = "start"
    THEN IF ~Configured(S.cfg)
         THEN Done(S, t, FALSE)
         ELSE Await(S, t, "w_post", [kind |-> "login"])
    ELSE IF S.resp.code = "ok" /\ S.resp.body = "Ok."
         THEN Done([S EXCEPT !.sid = S.resp.cookie], t, TRUE)
         ELSE Done(S, t, FALSE)

login(S, t) ==
    LET f == Top(S, t) IN
    IF f.pc = "start"
    THEN IF ~Configured(S.cfg)
         THEN Done(S, t, FALSE)
         ELSE Await(S, t, "w_post", [kind |-> "login"])
    ELSE \* "r_post": the response of POST /api/v2/auth/login
         IF S.resp.code = "ok" /\ S.resp.body = "Ok." /\ S.resp.cookie # 0
         THEN Done([S EXCEPT !.sid = S.resp.cookie], t, TRUE)
         ELSE Done(S, t, FALSE)

(* ------------------- client.ts: the domain operations ------------------ *)
\* getTorrents, getTorrentByHash, addTorrentByMagnet, deleteTorrents and
\* pauseTorrents are five copies of one shape: lazy login, request, and on
\* HTTP 403 clear sid, login again, request once more.  `op` selects the copy.
clientFrame(op, arg) ==
    [kind |-> "client", op |-> op, arg |-> arg, pc |-> "start", ret |-> FALSE,
     res |-> FALSE, req |-> NoReq, i |-> 0,
     \* bookkeeping: requests sent, their response codes, logins awaited
     nReq |-> 0, codes |-> <<>>, nLogin |-> 0, nRelogin |-> 0]

getTorrents == clientFrame("list", None)
getTorrentByHash(hash) == clientFrame("get", hash)
addTorrentByMagnet(magnetUrl) == clientFrame("add", magnetUrl)
deleteTorrents(hashes) == clientFrame("delete", hashes)
pauseTorrents(hashes) == clientFrame("pause", hashes)

\* Failure whose list and add values carry no error
FailureUnsaid(op, why) ==
    CASE op = "list" -> [torrents |-> None, error |-> None]
      [] op = "get" -> None
      [] op = "add" -> [success |-> FALSE, torrent |-> None, error |-> None]
      [] OTHER -> FALSE

\* what each copy returns on a failure
Failure(op, why) ==
    CASE op = "list" -> [torrents |-> None, error |-> Some(why)]
      [] op = "get" -> None
      [] op = "add" -> [success |-> FALSE, torrent |-> None, error |-> Some(why)]
      [] OTHER -> FALSE

\* A magnet link is kept as magnetUrl.split('&'), each part as part.split(':').
\* part.startsWith('xt=urn:btih:')
StartsWithBtih(part) == Len(part) >= 3 /\ part[1] = "xt=urn" /\ part[2] = "btih"
\* magnetLinkParts.find(...) then btihPart.split(':')[3]; "" when there is none
MagnetLookupHash(magnetUrl) ==
    LET idx == {k \in 1..Len(magnetUrl) : StartsWithBtih(magnetUrl[k])} IN
    IF idx = {} THEN ""
    ELSE LET part == magnetUrl[CHOOSE k \in idx : \A j \in idx : k <= j] IN
         IF Len(part) >= 4 THEN part[4] ELSE ""

\* number of lookups addTorrentByMagnet makes for the torrent it added
AddLookupTries == 5

\* the request just sent: counted, and tagged with the cookie it carries
SendRequest(S, t, wpc) ==
    LET f == Top(S, t) IN
    SetTop(S, t, [f EXCEPT !.pc = wpc, !.nReq = @ + 1,
                           !.req = [kind |-> f.op, tok |-> S.sid, arg |-> f.arg]])

\* `const loggedIn = await login()`
AwaitLogin(S, t, cont) ==
    Call(SetTop(S, t, [Top(S, t) EXCEPT !.nLogin = @ + 1]), t, cont, loginFrame)

\* a 2xx response to the first request
FirstOk(S, t) ==
    LET f == Top(S, t) IN
    CASE f.op = "list" -> Done(S, t, [torrents |-> Some(S.resp.data), error |-> None])
      [] f.op = "get" ->
            Done(S, t, IF S.resp.data # {} THEN Some(CHOOSE x \in S.resp.data : TRUE)
                                           ELSE None)
      [] f.op = "add" ->
            IF S.resp.data = "Ok."
            THEN IF MagnetLookupHash(f.arg) # ""
                 THEN SetTop(S, t, [f EXCEPT !.pc = "loop", !.i = 0])
                 ELSE Done(S, t, [success |-> TRUE, torrent |-> None, error |-> None])
            ELSE Done(S, t, Failure("add", "unexpected_response"))
      [] OTHER -> Done(S, t, TRUE)

\* RetryOk with the retried list response's data dropped
RetryOkDropsData(S, t) ==
    LET f == Top(S, t) IN
    CASE f.op = "list" -> Done(S, t, [torrents |-> Some(<<>>), error |-> None])
      [] f.op = "get" -> Done(S, t, None)
      [] f.op = "add" -> Done(S, t, Failure("add", "unexpected_response"))
      [] OTHER -> Done(S, t, TRUE)

\* a 2xx response to the retried request
RetryOk(S, t) ==
    LET f == Top(S, t) IN
    CASE f.op = "list" -> Done(S, t, [torrents |-> Some(S.resp.data), error |-> None])
      [] f.op = "get" ->
            Done(S, t, IF S.resp.data # {} THEN Some(CHOOSE x \in S.resp.data : TRUE)
                                           ELSE None)
      [] f.op = "add" ->
            IF S.resp.data = "Ok."
            THEN Done(S, t, [success |-> TRUE, torrent |-> None, error |-> None])
            ELSE Done(S, t, Failure("add", "unexpected_response"))
      [] OTHER -> Done(S, t, TRUE)

\* catch (error) with error.response.status === 403
OnUnauthorized(S, t) ==
    AwaitLogin(SetTop([S EXCEPT !.sid = 0], t,
                      [Top(S, t) EXCEPT !.nRelogin = @ + 1]), t, "afterLogin2")

\* OnRetryError that handles a second 403 like the first: login and retry again
OnRetryErrorLoops(S, t) ==
    IF S.resp.code = "403" THEN OnUnauthorized(S, t)
    ELSE Done(S, t, Failure(Top(S, t).op, "retry_failed"))

\* catch (retryError)
OnRetryError(S, t) == Done(S, t, Failure(Top(S, t).op, "retry_failed"))

\* the response code of a request of the top frame is noted
Noted(S, t) == SetTop(S, t, [Top(S, t) EXCEPT !.codes = Append(@, S.resp.code)])

\* domainOp that sends its request whatever the lazy login returned
domainOpGoesOn(S, t) ==
    LET f == Top(S, t) IN
    CASE f.pc = "start" ->
            IF S.sid = 0 THEN AwaitLogin(S, t, "afterLogin1")
            ELSE IF ~S.cfg.url THEN Done(S, t, Failure(f.op, "no_url"))
            ELSE SendRequest(S, t, "w_req1")
      [] f.pc = "afterLogin1" ->
            IF ~S.cfg.url THEN Done(S, t, Failure(f.op, "no_url"))
            ELSE SendRequest(S, t, "w_req1")
      [] f.pc = "r_req1" ->
            IF S.resp.code = "ok" THEN FirstOk(Noted(S, t), t)
            ELSE IF S.resp.code = "403" THEN OnUnauthorized(Noted(S, t), t)
            ELSE Done(Noted(S, t), t, Failure(f.op, "request_failed"))
      [] f.pc = "afterLogin2" ->
            IF f.ret /\ S.cfg.url THEN SendRequest(S, t, "w_req2")
            ELSE Done(S, t, Failure(f.op, "relogin_failed"))
      [] f.pc = "r_req2" ->
            IF S.resp.code = "ok" THEN RetryOk(Noted(S, t), t)
            ELSE OnRetryError(Noted(S, t), t)
      \* addTorrentByMagnet's lookup of the torrent it added
      [] f.pc = "loop" ->
            IF f.i < AddLookupTries THEN Await(S, t, "w_sleep", [kind |-> "sleep"])
            ELSE Done(S, t, [success |-> TRUE, torrent |-> None, error |-> None])
      [] f.pc = "r_sleep" ->
            Call(S, t, "afterGet", getTorrentByHash(MagnetLookupHash(f.arg)))
      [] f.pc = "afterGet" ->
            IF f.ret # None
            THEN Done(S, t, [success |-> TRUE, torrent |-> f.ret, error |-> None])
            ELSE SetTop(S, t, [f EXCEPT !.pc = "loop", !.i = @ + 1])

domainOp(S, t) ==
    LET f == Top(S, t) IN
    CASE f.pc = "start" ->
            IF S.sid = 0 THEN AwaitLogin(S, t, "afterLogin1")
            ELSE IF ~S.cfg.url THEN Done(S, t, Failure(f.op, "no_url"))
            ELSE SendRequest(S, t, "w_req1")
      [] f.pc = "afterLogin1" ->
            IF ~f.ret THEN Done(S, t, Failure(f.op, "login_failed"))
            ELSE IF ~S.cfg.url THEN Done(S, t, Failure(f.op, "no_url"))
            ELSE SendRequest(S, t, "w_req1")
      [] f.pc = "r_req1" ->
            IF S.resp.code = "ok" THEN FirstOk(Noted(S, t), t)
            ELSE IF S.resp.code = "403" THEN OnUnauthorized(Noted(S, t), t)
            ELSE Done(Noted(S, t), t, Failure(f.op, "request_failed"))
      [] f.pc = "afterLogin2" ->
            IF f.ret /\ S.cfg.url THEN SendRequest(S, t, "w_req2")
            ELSE Done(S, t, Failure(f.op, "relogin_failed"))
      [] f.pc = "r_req2" ->
            IF S.resp.code = "ok" THEN RetryOk(Noted(S, t), t)
            ELSE OnRetryError(Noted(S, t), t)
      \* addTorrentByMagnet's lookup of the torrent it added
      [] f.pc = "loop" ->
            IF f.i < AddLookupTries THEN Await(S, t, "w_sleep", [kind |-> "sleep"])
            ELSE Done(S, t, [success |-> TRUE, torrent |-> None, error |-> None])
      [] f.pc = "r_sleep" ->
            Call(S, t, "afterGet", getTorrentByHash(MagnetLookupHash(f.arg)))
      [] f.pc = "afterGet" ->
            IF f.ret # None
            THEN Done(S, t, [success |-> TRUE, torrent |-> f.ret, error |-> None])
            ELSE SetTop(S, t, [f EXCEPT !.pc = "loop", !.i = @ + 1])

(* ------------------- client.ts: getSeedingTorrents() ------------------- *)
\* types.ts: export const SEEDING_STATES = [...]
SEEDING_STATES == <<"uploading", "stalledUP", "forcedUP", "queuedUP", "checkingUP">>
\* String.prototype.toLowerCase on the state names qBittorrent reports
toLowerCase(str) ==
    CASE str = "stalledUP" -> "stalledup"
      [] str = "stalledDL" -> "stalleddl"
      [] str = "forcedUP" -> "forcedup"
      [] str = "queuedUP" -> "queuedup"
      [] str = "checkingUP" -> "checkingup"
      [] str = "pausedUP" -> "pausedup"
      [] OTHER -> str
\* Array.prototype.includes
includes(arr, x) == \E i \in DOMAIN arr : arr[i] = x
\* torrent => SEEDING_STATES.includes(torrent.state.toLowerCase())
IsSeedingState(torrent) == includes(SEEDING_STATES, toLowerCase(torrent.state))

seedingFrame == [kind |-> "seeding", pc |-> "start", ret |-> FALSE, res |-> FALSE,
                 req |-> NoReq]

getSeedingTorrents(S, t) ==
    LET f == Top(S, t) IN
    IF f.pc = "start" THEN Call(S, t, "afterList", getTorrents)
    ELSE \* "afterList": result = await getTorrents()
         IF f.ret.error # None
         THEN Done(S, t, [torrents |-> None, error |-> f.ret.error])
         ELSE IF f.ret.torrents # None
         THEN Done(S, t, [torrents |-> Some(SelectSeq(The(f.ret.torrents), IsSeedingState)),
                          error |-> None])
         ELSE Done(S, t, [torrents |-> Some(<<>>), error |-> None])

(* -------------------------- seedingManager.ts -------------------------- *)
\* parseInt of a string kept as its characters: optional sign, leading digits;
\* None is NaN
DigitChars == <<"0", "1", "2", "3", "4", "5", "6", "7", "8", "9">>
IsDigit(c) == \E d \in 1..10 : DigitChars[d] = c
DigitValue(c) == (CHOOSE d \in 1..10 : DigitChars[d] = c) - 1
RECURSIVE DigitsValue(_, _)
DigitsValue(str, acc) ==
    IF str = <<>> \/ ~IsDigit(Head(str)) THEN acc
    ELSE DigitsValue(Tail(str), acc * 10 + DigitValue(Head(str)))
parseInt(str) ==
    LET signed == str # <<>> /\ Head(str) \in {"-", "+"}
        body == IF signed THEN Tail(str) ELSE str
    IN IF body = <<>> \/ ~IsDigit(Head(body)) THEN None
       ELSE Some((IF signed /\ Head(str) = "-" THEN -1 ELSE 1) * DigitsValue(body, 0))

\* const SEEDING_MULTIPLIER = (() => { ... })()
SEEDING_MULTIPLIER(env) ==
    LET multiplier == parseInt(IF env = <<>> THEN <<"1", "0">> ELSE env) IN
    IF multiplier = None \/ The(multiplier) <= 0 THEN 10 ELSE The(multiplier)

\* trackTorrentForSeeding that overwrites the record it already has
trackTorrentForSeedingAgain(tt, torrent) ==
    MapSet(tt, [hash |-> torrent.hash, name |-> torrent.name,
                downloadStartTime |-> torrent.added_on,
                downloadCompletionTime |-> None, downloadDuration |-> None,
                seedingStopTime |-> None, stopped |-> FALSE])

trackTorrentForSeeding(tt, torrent) ==
    IF MapHas(tt, torrent.hash) THEN tt
    ELSE MapSet(tt, [hash |-> torrent.hash, name |-> torrent.name,
                     downloadStartTime |-> torrent.added_on,
                     downloadCompletionTime |-> None, downloadDuration |-> None,
                     seedingStopTime |-> None, stopped |-> FALSE])

\* markTorrentCompleted whose stop time leaves the multiplier out
markTorrentCompletedNoMultiplier(tt, torrent, clock, env) ==
    LET tt1 == IF MapHas(tt, torrent.hash) THEN tt
               ELSE trackTorrentForSeeding(tt, torrent)
        tracking == The(MapGet(tt1, torrent.hash))
    IN IF Truthy(tracking.downloadCompletionTime) THEN tt1
       ELSE MapSet(tt1, [tracking EXCEPT
                !.downloadCompletionTime = Some(clock),
                !.downloadDuration = Some(clock - tracking.downloadStartTime),
                !.seedingStopTime = Some(clock + (clock - tracking.downloadStartTime))])

\* markTorrentCompleted without the `already marked` return
markTorrentCompletedAgain(tt, torrent, clock, env) ==
    LET tt1 == IF MapHas(tt, torrent.hash) THEN tt
               ELSE trackTorrentForSeeding(tt, torrent)
        tracking == The(MapGet(tt1, torrent.hash))
        downloadDuration == clock - tracking.downloadStartTime
    IN MapSet(tt1, [tracking EXCEPT
                !.downloadCompletionTime = Some(clock),
                !.downloadDuration = Some(downloadDuration),
                !.seedingStopTime =
                    Some(clock + downloadDuration * SEEDING_MULTIPLIER(env))])

\* markTorrentCompleted that returns at once for an untracked torrent
markTorrentCompletedKnownOnly(tt, torrent, clock, env) ==
    IF ~MapHas(tt, torrent.hash) THEN tt
    ELSE LET tracking == The(MapGet(tt, torrent.hash))
             downloadDuration == clock - tracking.downloadStartTime
         IN IF Truthy(tracking.downloadCompletionTime) THEN tt
            ELSE MapSet(tt, [tracking EXCEPT
                     !.downloadCompletionTime = Some(clock),
                     !.downloadDuration = Some(downloadDuration),
                     !.seedingStopTime =
                         Some(clock + downloadDuration * SEEDING_MULTIPLIER(env))])

\* An untracked torrent is tracked first and the function calls itself once;
\* tt1 is the map that second call sees.
markTorrentCompleted(tt, torrent, clock, env) ==
    LET tt1 == IF MapHas(tt, torrent.hash) THEN tt
               ELSE trackTorrentForSeeding(tt, torrent)
        tracking == The(MapGet(tt1, torrent.hash))
        downloadDuration == clock - tracking.downloadStartTime
        seedingDuration == downloadDuration * SEEDING_MULTIPLIER(env)
    IN IF Truthy(tracking.downloadCompletionTime) THEN tt1
       ELSE MapSet(tt1, [tracking EXCEPT
                !.downloadCompletionTime = Some(clock),
                !.downloadDuration = Some(downloadDuration),
                !.seedingStopTime = Some(clock + seedingDuration)])

removeTorrentTracking(tt, hash) == MapDelete(tt, hash)

\* torrentsToStop that forgets to skip the stopped records
torrentsToStopAgain(tt, clock) ==
    {e.hash : e \in {x \in tt : Truthy(x.seedingStopTime)
                                 /\ clock >= The(x.seedingStopTime)}}

\* torrentsToStop with `>` for `>=`
torrentsToStopLate(tt, clock) ==
    {e.hash : e \in {x \in tt : ~(x.stopped \/ ~Truthy(x.seedingStopTime))
                                 /\ clock > The(x.seedingStopTime)}}

\* the loop of checkAndStopOverseededTorrents that fills torrentsToStop
torrentsToStop(tt, clock) ==
    {e.hash : e \in {x \in tt : ~(x.stopped \/ ~Truthy(x.seedingStopTime))
                                 /\ clock >= The(x.seedingStopTime)}}

\* markStopped that marks without looking at the pause's result
markStoppedAnyway(tt, hashes, success) ==
    {IF e.hash \in hashes THEN [e EXCEPT !.stopped = TRUE] ELSE e : e \in tt}

\* markStopped that marks only one record of the batch
markStoppedOne(tt, hashes, success) ==
    IF success /\ hashes # {}
    THEN LET h == CHOOSE x \in hashes : TRUE IN
         {IF e.hash = h THEN [e EXCEPT !.stopped = TRUE] ELSE e : e \in tt}
    ELSE tt

\* `if (success) { for (const hash of ...) { ... tracking.stopped = true } }`
markStopped(tt, hashes, success) ==
    IF success
    THEN {IF e.hash \in hashes THEN [e EXCEPT !.stopped = TRUE] ELSE e : e \in tt}
    ELSE tt

sweepFrame == [kind |-> "sweep", pc |-> "start", ret |-> FALSE, res |-> FALSE,
               req |-> NoReq, hashes |-> {}]

\* checkAndStopOverseededTorrents that drops the records of a batch whose
\* pause failed
checkAndStopGivesUp(S, t) ==
    LET f == Top(S, t) IN
    IF f.pc = "start"
    THEN LET batch == torrentsToStop(S.torrentTimings, S.now) IN
         IF batch # {}
         THEN Call(SetTop(S, t, [f EXCEPT !.hashes = batch]), t, "afterPause",
                   pauseTorrents(batch))
         ELSE Done(S, t, FALSE)
    ELSE Done([S EXCEPT !.torrentTimings =
                   IF f.ret THEN markStopped(@, f.hashes, f.ret)
                   ELSE {e \in @ : e.hash \notin f.hashes}], t, f.ret)

checkAndStopOverseededTorrents(S, t) ==
    LET f == Top(S, t) IN
    IF f.pc = "start"
    THEN LET batch == torrentsToStop(S.torrentTimings, S.now) IN
         IF batch # {}
         THEN Call(SetTop(S, t, [f EXCEPT !.hashes = batch]), t, "afterPause",
                   pauseTorrents(batch))
         ELSE Done(S, t, FALSE)
    ELSE \* "afterPause": nothing is returned; the frame's result keeps `success`
         Done([S EXCEPT !.torrentTimings = markStopped(@, f.hashes, f.ret)], t, f.ret)

manualFrame(hashes) ==
    [kind |-> "manual", pc |-> "start", ret |-> FALSE, res |-> FALSE,
     req |-> NoReq, hashes |-> hashes]

\* manuallyStopSeeding that pauses only the records whose stop time has come
manuallyStopSeedingDue(S, t) ==
    LET f == Top(S, t)
        due == f.hashes \cap torrentsToStop(S.torrentTimings, S.now)
    IN
    IF f.pc = "start"
    THEN IF due = {} THEN Done(S, t, FALSE)
         ELSE Call(S, t, "afterPause", pauseTorrents(due))
    ELSE \* "afterPause"
         Done([S EXCEPT !.torrentTimings = markStopped(@, f.hashes, f.ret)], t, f.ret)

manuallyStopSeeding(S, t) ==
    LET f == Top(S, t) IN
    IF f.pc = "start"
    THEN IF f.hashes = {} THEN Done(S, t, FALSE)
         ELSE Call(S, t, "afterPause", pauseTorrents(f.hashes))
    ELSE \* "afterPause"
         Done([S EXCEPT !.torrentTimings = markStopped(@, f.hashes, f.ret)], t, f.ret)

\* reconcileOne that marks a finished torrent again at every pass
reconcileOneRemarks(tt, torrent, clock, env) ==
    LET tracking == MapGet(tt, torrent.hash)
        tt1 == IF tracking = None /\ torrent.progress < 100
               THEN trackTorrentForSeeding(tt, torrent) ELSE tt
    IN IF tracking # None /\ torrent.progress >= 100
       THEN MapSet(tt1, [The(tracking) EXCEPT
                !.downloadCompletionTime = Some(clock),
                !.downloadDuration = Some(clock - The(tracking).downloadStartTime),
                !.seedingStopTime =
                    Some(clock + (clock - The(tracking).downloadStartTime)
                                     * SEEDING_MULTIPLIER(env))])
       ELSE tt1

\* reconcileOne that tracks an unknown torrent whatever its progress
reconcileOneTracksAll(tt, torrent, clock, env) ==
    LET tracking == MapGet(tt, torrent.hash)
        tt1 == IF tracking = None THEN trackTorrentForSeeding(tt, torrent) ELSE tt
    IN IF /\ tracking # None
          /\ ~Truthy(The(tracking).downloadCompletionTime)
          /\ torrent.progress >= 100
       THEN markTorrentCompleted(tt1, torrent, clock, env)
       ELSE tt1

\* the body of the loop over result.torrents
reconcileOne(tt, torrent, clock, env) ==
    LET tracking == MapGet(tt, torrent.hash)
        tt1 == IF tracking = None /\ torrent.progress < 100
               THEN trackTorrentForSeeding(tt, torrent) ELSE tt
    IN IF /\ tracking # None
          /\ ~Truthy(The(tracking).downloadCompletionTime)
          /\ torrent.progress >= 100
       THEN markTorrentCompleted(tt1, torrent, clock, env)
       ELSE tt1

RECURSIVE reconcileAll(_, _, _, _)
reconcileAll(tt, torrents, clock, env) ==
    IF torrents = <<>> THEN tt
    ELSE reconcileAll(reconcileOne(tt, Head(torrents), clock, env), Tail(torrents),
                      clock, env)

reconcileFrame == [kind |-> "reconcile", pc |-> "start", ret |-> FALSE,
                   res |-> FALSE, req |-> NoReq]

\* updateTorrentCompletionStatus that forgets the records of torrents the list
\* no longer holds
updateTorrentCompletionStatusPrunes(S, t) ==
    LET f == Top(S, t) IN
    IF f.pc = "start" THEN Call(S, t, "afterList", getTorrents)
    ELSE IF f.ret.error # None \/ f.ret.torrents = None THEN Done(S, t, FALSE)
         ELSE LET torrents == The(f.ret.torrents) IN
              Done([S EXCEPT !.torrentTimings =
                        {e \in reconcileAll(@, torrents, S.now, S.seedingEnv) :
                            \E i \in DOMAIN torrents : torrents[i].hash = e.hash}],
                   t, TRUE)

updateTorrentCompletionStatus(S, t) ==
    LET f == Top(S, t) IN
    IF f.pc = "start" THEN Call(S, t, "afterList", getTorrents)
    ELSE \* "afterList"
         IF f.ret.error # None \/ f.ret.torrents = None THEN Done(S, t, FALSE)
         ELSE Done([S EXCEPT !.torrentTimings =
                        reconcileAll(@, The(f.ret.torrents), S.now, S.seedingEnv)],
                   t, TRUE)

\* the setInterval callback of startSeedingManager, and its initial run
passFrame == [kind |-> "pass", pc |-> "start", ret |-> FALSE, res |-> FALSE,
              req |-> NoReq]

\* a pass that ends after the reconcile and never sweeps
seedingPassUpdateOnly(S, t) ==
    LET f == Top(S, t) IN
    CASE f.pc = "start" -> Call(S, t, "afterUpdate", reconcileFrame)
      [] f.pc = "afterUpdate" -> Done(S, t, TRUE)
      [] f.pc = "afterCheck" -> Done(S, t, TRUE)

seedingPass(S, t) ==
    LET f == Top(S, t) IN
    CASE f.pc = "start" -> Call(S, t, "afterUpdate", reconcileFrame)
      [] f.pc = "afterUpdate" -> Call(S, t, "afterCheck", sweepFrame)
      [] f.pc = "afterCheck" -> Done(S, t, TRUE)

\* bot/client.ts: the ClientReady handler from qbitLogin() on
readyFrame == [kind |-> "ready", pc |-> "start", ret |-> FALSE, res |-> FALSE,
               req |-> NoReq]

clientReady(S, t) ==
    LET f == Top(S, t) IN
    IF f.pc = "start" THEN Call(S, t, "afterLogin", loginFrame)
    ELSE \* "afterLogin"
         IF f.ret
         THEN \* startSeedingManager(): the initial run goes on by itself
              SetTop([S EXCEPT !.started = "on"], t, passFrame)
         ELSE Done([S EXCEPT !.started = "off"], t, FALSE)

(* ------------------- bot/handlers/messageHandler.ts -------------------- *)
\* A TrackedTorrentInfo object is known by the message it holds: every object
\* is created with the message a follow-up has just created.  `ord` is the place
\* of the entry in the Map's iteration order: its place of insertion.
TrackedTorrentInfo(hash, message, addedOn, torrentName) ==
    [hash |-> hash, message |-> message, lastProgress |-> 0, isCompleted |-> FALSE,
     addedOn |-> addedOn, torrentName |-> torrentName, ord |-> message]

\* activeTorrentMessages.set(hash, info): a key the Map has keeps its place
activeSet(m, info) ==
    IF MapHas(m, info.hash)
    THEN MapSet(m, [info EXCEPT !.ord = The(MapGet(m, info.hash)).ord])
    ELSE MapSet(m, info)

\* trackedInfo.isCompleted = true, on the object that holds `message`
setIsCompleted(m, message) ==
    {IF e.message = message THEN [e EXCEPT !.isCompleted = TRUE] ELSE e : e \in m}
\* trackedInfo.lastProgress = progress
setLastProgress(m, message, progress) ==
    {IF e.message = message THEN [e EXCEPT !.lastProgress = progress] ELSE e : e \in m}

trackFrame(hash, displayName, addedOn) ==
    [kind |-> "track", pc |-> "start", ret |-> FALSE, res |-> FALSE, req |-> NoReq,
     hash |-> hash, displayName |-> displayName, addedOn |-> addedOn]

trackTorrentProgress(S, t) ==
    LET f == Top(S, t) IN
    IF f.pc = "start" THEN Await(S, t, "w_followUp", [kind |-> "followUp"])
    ELSE \* "r_followUp"
         IF S.resp.code = "ok"
         THEN Done([S EXCEPT !.activeTorrentMessages =
                        activeSet(@, TrackedTorrentInfo(f.hash, S.resp.message,
                                                        f.addedOn, f.displayName))],
                   t, TRUE)
         ELSE Done(S, t, FALSE)

\* state.toLowerCase().includes('error') || ...includes('stalled')
IsErrorOrStalled(state) == state \in {"error", "stalledDL", "stalledUP"}

NoInfo == TrackedTorrentInfo("", 0, 0, "")
pollFrame == [kind |-> "poll", pc |-> "start", ret |-> FALSE, res |-> FALSE,
              req |-> NoReq, last |-> 0, cur |-> NoInfo, torrent |-> None]

\* trackedInfo.isCompleted = true, as the passes see it that hold the same
\* object in their own `trackedInfo`
heldSetIsCompleted(ts, message) ==
    [t \in DOMAIN ts |->
        [k \in 1..Len(ts[t]) |->
            IF ts[t][k].kind = "poll" /\ ts[t][k].cur.message = message
            THEN [ts[t][k] EXCEPT !.cur.isCompleted = TRUE]
            ELSE ts[t][k]]]

\* the object task t holds in `trackedInfo`, as it is now
heldIsCompleted(S, f) ==
    IF \E e \in S.activeTorrentMessages : e.message = f.cur.message
    THEN (CHOOSE e \in S.activeTorrentMessages : e.message = f.cur.message).isCompleted
    ELSE f.cur.isCompleted

\* Report that looks at the state before it looks at the progress
ReportStateFirst(S, f, torrent) ==
    IF IsErrorOrStalled(torrent.state) THEN "stalled"
    ELSE IF torrent.progress >= 100 /\ ~heldIsCompleted(S, f) THEN "completed"
    ELSE "progress"

\* the branch taken for a torrent the remote still has
Report(S, f, torrent) ==
    IF torrent.progress >= 100 /\ ~heldIsCompleted(S, f) THEN "completed"
    ELSE IF IsErrorOrStalled(torrent.state) THEN "stalled"
    ELSE "progress"

\* onFound that leaves a finished torrent's handle in the Map
onFoundKeepsHandle(S, f, torrent) ==
    CASE Report(S, f, torrent) = "completed" ->
            [S EXCEPT
                !.torrentTimings = markTorrentCompleted(@, torrent, S.now, S.seedingEnv)]
      [] Report(S, f, torrent) = "stalled" ->
            [S EXCEPT !.activeTorrentMessages =
                    MapDelete(setIsCompleted(@, f.cur.message), f.cur.hash)]
      [] OTHER -> S

\* onFound that leaves the completion to the seeding manager's next pass
onFoundNoMark(S, f, torrent) ==
    IF Report(S, f, torrent) \in {"completed", "stalled"}
    THEN [S EXCEPT !.activeTorrentMessages =
                MapDelete(setIsCompleted(@, f.cur.message), f.cur.hash)]
    ELSE S

\* onFound whose stalled branch leaves the removal to the catch of the edit
onFoundStalledStays(S, f, torrent) ==
    CASE Report(S, f, torrent) = "completed" ->
            [S EXCEPT
                !.torrentTimings = markTorrentCompleted(@, torrent, S.now, S.seedingEnv),
                !.tasks = heldSetIsCompleted(@, f.cur.message),
                !.activeTorrentMessages =
                    MapDelete(setIsCompleted(@, f.cur.message), f.cur.hash)]
      [] Report(S, f, torrent) = "stalled" ->
            [S EXCEPT
                !.tasks = heldSetIsCompleted(@, f.cur.message),
                !.activeTorrentMessages = setIsCompleted(@, f.cur.message)]
      [] OTHER -> S

\* what that branch does before the message is edited
onFound(S, f, torrent) ==
    CASE Report(S, f, torrent) = "completed" ->
            [S EXCEPT
                !.torrentTimings = markTorrentCompleted(@, torrent, S.now, S.seedingEnv),
                !.tasks = heldSetIsCompleted(@, f.cur.message),
                !.activeTorrentMessages =
                    MapDelete(setIsCompleted(@, f.cur.message), f.cur.hash)]
      [] Report(S, f, torrent) = "stalled" ->
            [S EXCEPT
                !.tasks = heldSetIsCompleted(@, f.cur.message),
                !.activeTorrentMessages =
                    MapDelete(setIsCompleted(@, f.cur.message), f.cur.hash)]
      [] OTHER -> S

\* the try/catch around message.edit
onEdited(m, f, code) ==
    IF code = "ok" THEN setLastProgress(m, f.cur.message, The(f.torrent).progress)
    ELSE MapDelete(m, f.cur.hash)

\* onGone that keeps the handle when the last edit was rejected
onGoneIfPushed(m, f, code) == IF code = "ok" THEN MapDelete(m, f.cur.hash) ELSE m

\* after the `no longer found` edit, whatever its outcome
onGone(m, f, code) == MapDelete(m, f.cur.hash)

updateTrackedTorrents(S, t) ==
    LET f == Top(S, t)
        message == f.cur.message
    IN
    CASE f.pc = "start" ->
            IF S.activeTorrentMessages = {} THEN Done(S, t, FALSE)
            ELSE SetTop(S, t, [f EXCEPT !.pc = "next"])
      \* the Map iterator's next entry: the first one inserted after the last
      [] f.pc = "next" ->
            LET rest == {e \in S.activeTorrentMessages : e.ord > f.last} IN
            IF rest = {} THEN Done(S, t, TRUE)
            ELSE LET e == CHOOSE x \in rest : \A y \in rest : x.ord <= y.ord IN
                 IF e.isCompleted THEN SetTop(S, t, [f EXCEPT !.last = e.ord])
                 ELSE Call(SetTop(S, t, [f EXCEPT !.last = e.ord, !.cur = e]), t,
                           "afterGet", getTorrentByHash(e.hash))
      [] f.pc = "afterGet" ->
            IF f.ret # None
            THEN LET torrent == The(f.ret) IN
                 Await(SetTop(onFound(S, f, torrent), t, [f EXCEPT !.torrent = f.ret]),
                       t, "w_edit",
                       [kind |-> "edit", message |-> message,
                        text |-> Report(S, f, torrent)])
            ELSE Await(S, t, "w_gone",
                       [kind |-> "edit", message |-> message, text |-> "gone"])
      [] f.pc = "r_edit" ->
            SetTop([S EXCEPT !.activeTorrentMessages = onEdited(@, f, S.resp.code)],
                   t, [f EXCEPT !.pc = "next"])
      [] f.pc = "r_gone" ->
            SetTop([S EXCEPT !.activeTorrentMessages = onGone(@, f, S.resp.code)], t,
                   [f EXCEPT !.pc = "next"])

\* torrents.reduce((latest, current) =>
\*     (latest.added_on > current.added_on) ? latest : current)
RECURSIVE latestTorrent(_, _)
latestTorrent(latest, torrents) ==
    IF torrents = <<>> THEN latest
    ELSE latestTorrent(IF latest.added_on > Head(torrents).added_on
                       THEN latest ELSE Head(torrents), Tail(torrents))

\* seconds within which the newest torrent counts as the one just added
AddedWindow == 30

\* the addmagnet command from qbitAddTorrentByMagnet() on, with the callback
\* it hands to setTimeout; "display" is the magnet's display name
addmagnetFrame(magnetLink) ==
    [kind |-> "addmagnet", pc |-> "start", ret |-> FALSE, res |-> FALSE,
     req |-> NoReq, magnetLink |-> magnetLink, result |-> FALSE]

addmagnet(S, t) ==
    LET f == Top(S, t) IN
    CASE f.pc = "start" -> Call(S, t, "afterAdd", addTorrentByMagnet(f.magnetLink))
      [] f.pc = "afterAdd" ->
            IF f.ret.success
            THEN Await(SetTop(S, t, [f EXCEPT !.result = f.ret]), t, "w_reply",
                       [kind |-> "reply"])
            ELSE Done(S, t, FALSE)
      [] f.pc = "r_reply" ->
            IF S.resp.code # "ok" THEN Done(S, t, FALSE)
            ELSE IF f.result.torrent # None
            THEN LET torrent == The(f.result.torrent) IN
                 SetTop([S EXCEPT !.torrentTimings =
                            trackTorrentForSeeding(@, torrent)], t,
                        trackFrame(torrent.hash, "display", torrent.added_on))
            ELSE Await(S, t, "w_timer", [kind |-> "sleep"])
      [] f.pc = "r_timer" -> Call(S, t, "afterList", getTorrents)
      [] f.pc = "afterList" ->
            IF f.ret.torrents # None /\ The(f.ret.torrents) # <<>>
            THEN LET torrents == The(f.ret.torrents)
                     latest == latestTorrent(Head(torrents), Tail(torrents))
                 IN IF S.now - latest.added_on < AddedWindow
                    THEN SetTop([S EXCEPT !.torrentTimings =
                                    trackTorrentForSeeding(@, latest)], t,
                                trackFrame(latest.hash, latest.name, latest.added_on))
                    ELSE Done(S, t, FALSE)
            ELSE Done(S, t, FALSE)

\* the delete-confirm button from qbitDeleteTorrents() on
RECURSIVE forgetTorrents(_, _)
forgetTorrents(S, hashes) ==
    IF hashes = {} THEN S
    ELSE LET hash == CHOOSE h \in hashes : TRUE IN
         forgetTorrents([S EXCEPT
                            !.torrentTimings = removeTorrentTracking(@, hash),
                            !.activeTorrentMessages = MapDelete(@, hash)],
                        hashes \ {hash})

deleteConfirmFrame(hashes) ==
    [kind |-> "deleteConfirm", pc |-> "start", ret |-> FALSE, res |-> FALSE,
     req |-> NoReq, hashes |-> hashes]

\* deleteConfirm with the records and handles removed whatever the remote says
deleteConfirmForgetsAlways(S, t) ==
    LET f == Top(S, t) IN
    IF f.pc = "start" THEN Call(S, t, "afterDelete", deleteTorrents(f.hashes))
    ELSE Done(forgetTorrents(S, f.hashes), t, f.ret)

deleteConfirm(S, t) ==
    LET f == Top(S, t) IN
    IF f.pc = "start" THEN Call(S, t, "afterDelete", deleteTorrents(f.hashes))
    ELSE \* "afterDelete"
         IF f.ret THEN Done(forgetTorrents(S, f.hashes), t, TRUE)
         ELSE Done(S, t, FALSE)

\* Map.get, Map.delete on the two Maps of pending requests, keyed by the id
\* of the interaction that made the request
PendingGet(m, id) == IF \E e \in m : e.id = id THEN Some(CHOOSE e \in m : e.id = id)
                                                ELSE None
PendingDelete(m, id) == {e \in m : e.id # id}
PendingOf(S, which) ==
    IF which = "delete" THEN S.pendingDeletions ELSE S.pendingSeedStops
PendingForget(S, which, id) ==
    IF which = "delete"
    THEN [S EXCEPT !.pendingDeletions = PendingDelete(@, id)]
    ELSE [S EXCEPT !.pendingSeedStops = PendingDelete(@, id)]

\* the delete-confirm and the stopseeds-confirm button: `which` is the command,
\* `id` the interaction id in the button's customId, `stage` the await the
\* handler is in
confirmFrame(which, id) ==
    [kind |-> "confirm", pc |-> "start", ret |-> FALSE, res |-> FALSE,
     req |-> NoReq, which |-> which, id |-> id, stage |-> "start", hashes |-> {}]

onConfirm(S, t) ==
    LET f == Top(S, t)
        entry == PendingGet(PendingOf(S, f.which), f.id)
    IN
    CASE f.pc = "start" ->
            \* `This ... request has expired.`
            IF entry = None
            THEN Await(SetTop(S, t, [f EXCEPT !.stage = "expired"]), t, "w_reply",
                       [kind |-> "reply"])
            \* await interaction.deferUpdate()
            ELSE Await(SetTop(S, t, [f EXCEPT !.stage = "defer",
                                              !.hashes = The(entry).hashes]),
                       t, "w_reply", [kind |-> "reply"])
      [] f.pc = "r_reply" /\ f.stage = "expired" -> Done(S, t, FALSE)
      \* a rejected call throws into the handler's catch
      [] f.pc = "r_reply" /\ f.stage = "defer" ->
            IF S.resp.code = "err" THEN Done(S, t, FALSE)
            ELSE Call(S, t, "afterOp",
                      IF f.which = "delete" THEN deleteConfirmFrame(f.hashes)
                                            ELSE manualFrame(f.hashes))
      \* await interaction.editReply(...), whatever `success` is
      [] f.pc = "afterOp" ->
            Await(SetTop(S, t, [f EXCEPT !.stage = "tell"]), t, "w_reply",
                  [kind |-> "reply"])
      [] f.pc = "r_reply" /\ f.stage = "tell" ->
            IF S.resp.code = "err" THEN Done(S, t, FALSE)
            ELSE Done(PendingForget(S, f.which, f.id), t, TRUE)

\* the delete-cancel and the stopseeds-cancel button
cancelFrame(which, id) ==
    [kind |-> "cancel", pc |-> "start", ret |-> FALSE, res |-> FALSE,
     req |-> NoReq, which |-> which, id |-> id]

onCancel(S, t) ==
    LET f == Top(S, t) IN
    IF f.pc = "start"
    THEN Await(PendingForget(S, f.which, f.id), t, "w_reply", [kind |-> "reply"])
    ELSE Done(S, t, TRUE)

(* ----------------------------- scheduler ------------------------------ *)
\* one frame runs to its next await, call or return
Step(S, t) ==
    LET f == Top(S, t) IN
    CASE f.kind = "login" -> login(S, t)
      [] f.kind = "client" -> domainOp(S, t)
      [] f.kind = "sweep" -> checkAndStopOverseededTorrents(S, t)
      [] f.kind = "manual" -> manuallyStopSeeding(S, t)
      [] f.kind = "reconcile" -> updateTorrentCompletionStatus(S, t)
      [] f.kind = "pass" -> seedingPass(S, t)
      [] f.kind = "ready" -> clientReady(S, t)
      [] f.kind = "track" -> trackTorrentProgress(S, t)
      [] f.kind = "poll" -> updateTrackedTorrents(S, t)
      [] f.kind = "addmagnet" -> addmagnet(S, t)
      [] f.kind = "deleteConfirm" -> deleteConfirm(S, t)
      [] f.kind = "seeding" -> getSeedingTorrents(S, t)
      [] f.kind = "confirm" -> onConfirm(S, t)
      [] f.kind = "cancel" -> onCancel(S, t)

\* the handlers and callbacks whose promise nobody awaits
Unawaited == {"track", "poll", "addmagnet", "deleteConfirm", "confirm", "cancel"}

\* the task runs until it is suspended or has returned
RECURSIVE Run(_, _)
RunFrom(S, t) ==
    LET st == S.tasks[t] IN
    IF st = <<>> \/ Waiting(st) THEN S
    ELSE IF Finished(st)
    THEN IF st[1].kind \in Unawaited THEN [S EXCEPT !.tasks[t] = <<>>] ELSE S
    ELSE IF st[Len(st)].pc = "done" THEN Run(Return(S, t), t)
    ELSE Run(Step(S, t), t)
\* the state the task starts from is worked out once, then the task runs on
Run(S, t) == CHOOSE out \in {RunFrom(R, t) : R \in {S}} : TRUE

(* ----------------------- the remote's answers ------------------------- *)
TrueHash(magnetUrl) ==
    LET k == CHOOSE j \in 1..Len(magnetUrl) :
                 \E p \in 1..Len(magnetUrl[j]) - 1 : magnetUrl[j][p] = "btih"
        part == magnetUrl[k]
        p == CHOOSE q \in 1..Len(part) - 1 : part[q] = "btih"
    IN part[p + 1]

Magnets ==
    { << <<"magnet", "?xt=urn", "btih", "a">>, <<"dn=x">> >>,   \* magnet:?xt=urn:btih:a&dn=x
      << <<"magnet", "?dn=x">>, <<"xt=urn", "btih", "b">> >> }   \* magnet:?dn=x&xt=urn:btih:b

\* (response, remote afterwards) pairs the remote can give to request `req`
Answers(req, r, clock) ==
    CASE req.kind = "login" ->
            {[resp |-> [code |-> "err", body |-> "", cookie |-> 0], remote |-> r],
             [resp |-> [code |-> "ok", body |-> "Fails.", cookie |-> 0], remote |-> r],
             [resp |-> [code |-> "ok", body |-> "Ok.", cookie |-> 0], remote |-> r]}
            \cup (IF r.issued < MaxTok
                  THEN {[resp |-> [code |-> "ok", body |-> "Ok.", cookie |-> r.issued + 1],
                         remote |-> [r EXCEPT !.issued = @ + 1,
                                              !.valid = @ \cup {r.issued + 1}]]}
                  ELSE {})
      [] req.kind = "sleep" -> {[resp |-> [code |-> "ok"], remote |-> r]}
      \* interaction.followUp(...) resolves to the message it created
      [] req.kind = "followUp" ->
            {[resp |-> [code |-> "err", message |-> 0], remote |-> r]}
            \cup (IF r.created < MaxMsg
                  THEN {[resp |-> [code |-> "ok", message |-> r.created + 1],
                         remote |-> [r EXCEPT !.created = @ + 1]]}
                  ELSE {})
      \* message.edit(...), interaction.editReply(...)
      [] req.kind = "edit" ->
            {[resp |-> [code |-> c], remote |-> Pushed(r, req, c)] : c \in {"err", "ok"}}
      [] req.kind = "reply" ->
            {[resp |-> [code |-> "err"], remote |-> r],
             [resp |-> [code |-> "ok"], remote |-> r]}
      [] req.kind \in {"list", "get", "add", "pause", "delete"} ->
            {[resp |-> [code |-> "err", data |-> ""], remote |-> r]}
            \cup
            (IF req.tok \notin r.valid
             THEN {[resp |-> [code |-> "403", data |-> ""], remote |-> r]}
             ELSE CASE req.kind = "list" ->
                         {[resp |-> [code |-> "ok", data |-> l], remote |-> r] :
                            l \in Listings(r)}
                    [] req.kind = "get" ->
                         {[resp |-> [code |-> "ok",
                                     data |-> {x \in RemoteTorrents(r) : x.hash = req.arg}],
                           remote |-> r]}
                    [] req.kind = "add" ->
                         LET h == TrueHash(req.arg) IN
                         IF r.jobs[h] # None
                         THEN {[resp |-> [code |-> "ok", data |-> "Fails."], remote |-> r]}
                         ELSE {[resp |-> [code |-> "ok", data |-> "Fails."], remote |-> r]}
                              \cup
                              {[resp |-> [code |-> "ok", data |-> "Ok."],
                                remote |-> [r EXCEPT !.jobs[h] =
                                    Some(Snapshot(h, NameOf(h), clock, 0, "downloading"))]]}
                    [] req.kind = "pause" ->
                         {[resp |-> [code |-> "ok", data |-> ""], remote |-> r]}
                    [] req.kind = "delete" ->
                         {[resp |-> [code |-> "ok", data |-> ""],
                           remote |-> [r EXCEPT !.jobs =
                               [h \in Hashes |-> IF h \in req.arg THEN None ELSE @[h]]]]})

\* the pc a frame resumes at when its awaited response arrives
ResumePC(wpc) ==
    CASE wpc = "w_post" -> "r_post"
      [] wpc = "w_req1" -> "r_req1"
      [] wpc = "w_req2" -> "r_req2"
      [] wpc = "w_sleep" -> "r_sleep"
      [] wpc = "w_edit" -> "r_edit"
      [] wpc = "w_gone" -> "r_gone"
      [] wpc = "w_followUp" -> "r_followUp"
      [] wpc = "w_reply" -> "r_reply"
      [] wpc = "w_timer" -> "r_timer"

\* A response reaches task t, which then runs to its next suspension point.
\* the remote answers `a` to the request task t is suspended in
Deliver(t, a) ==
    LET f == tasks[t][Len(tasks[t])] IN
    /\ remote' = a.remote
    /\ Commit(Run(SetTop([Cur EXCEPT !.resp = a.resp], t,
                          [f EXCEPT !.pc = ResumePC(f.pc), !.req = NoReq]), t))

Respond(t) ==
    /\ Waiting(tasks[t])
    /\ \E a \in Answers(tasks[t][Len(tasks[t])].req, remote, now) : Deliver(t, a)
    /\ UNCHANGED <<cfg, seedingEnv, now>>

\* the caller has consumed the result of a finished invocation
Finish(t) ==
    /\ Finished(tasks[t])
    /\ tasks' = [tasks EXCEPT ![t] = <<>>]
    /\ UNCHANGED <<cfg, seedingEnv, pending, sid, remote, now, torrentTimings,
                   activeTorrentMessages, started>>

\* an async function is invoked on a free slot and runs to its first await
Invoke(t, frame) ==
    /\ tasks[t] = <<>>
    /\ Commit(Run([Cur EXCEPT !.tasks[t] = <<frame>>], t))
    /\ UNCHANGED <<cfg, seedingEnv, remote, now>>

\* the remote drops every session (timeout, restart)
ExpireSessions ==
    /\ remote.valid # {}
    /\ remote' = [remote EXCEPT !.valid = {}]
    /\ UNCHANGED <<cfg, seedingEnv, pending, sid, now, torrentTimings,
                   activeTorrentMessages, started, tasks>>

(* ------------------ the session client on its own --------------------- *)
\* no delete or stop-seeds command has been given yet
NoPending == pendingDeletions = {} /\ pendingSeedStops = {}
Configs == {[url |-> u, user |-> n, pass |-> p] : u, n, p \in BOOLEAN}

InitCommon ==
    /\ NoPending
    /\ sid = 0
    /\ now = StartTime
    /\ torrentTimings = {}
    /\ activeTorrentMessages = {}
    /\ started = "no"
    /\ tasks = [t \in Tasks |-> <<>>]

InitClient ==
    /\ InitCommon
    /\ cfg \in Configs
    /\ seedingEnv = <<>>
    /\ remote = [issued |-> 0, valid |-> {}, created |-> 0, pushed |-> NoPushes,
                 jobs |-> [h \in Hashes |->
                     IF h = "a"
                     THEN Some(Snapshot(h, NameOf(h), StartTime, 50, "downloading"))
                     ELSE None]]

\* the hash lists the callers pass: never empty
HashLists == {{"a"}, {"a", "b"}}

CallLogin(t) == Invoke(t, loginFrame)
CallGetTorrents(t) == Invoke(t, getTorrents)
CallGetTorrentByHash(t) == \E h \in Hashes : Invoke(t, getTorrentByHash(h))
CallAddTorrentByMagnet(t) == \E m \in Magnets : Invoke(t, addTorrentByMagnet(m))
CallDeleteTorrents(t) == \E hs \in HashLists : Invoke(t, deleteTorrents(hs))
CallPauseTorrents(t) == \E hs \in HashLists : Invoke(t, pauseTorrents(hs))

\* Slot t1 runs what a command handler or the startup calls, slot t2 what the
\* two timers call, so every operation can overlap one driven by a timer.
NextClient ==
    \/ CallLogin("t1")
    \/ \E t \in {"t1", "t2"} : CallGetTorrents(t)
    \/ \E t \in {"t1", "t2"} : CallGetTorrentByHash(t)
    \/ CallAddTorrentByMagnet("t1")
    \/ CallDeleteTorrents("t1")
    \/ \E t \in {"t1", "t2"} : CallPauseTorrents(t)
    \/ \E t \in Tasks : Respond(t)
    \/ \E t \in Tasks : Finish(t)
    \/ ExpireSessions

SpecClient == InitClient /\ [][NextClient]_vars

(* ----------------------- the seeding manager ------------------------- *)
\* seconds pass
Tick ==
    /\ now < MaxTime
    /\ now' = now + 1
    /\ UNCHANGED <<cfg, seedingEnv, pending, sid, remote, torrentTimings,
                   activeTorrentMessages, started, tasks>>

\* the remote finishes a download
RemoteCompletes(h) ==
    /\ remote.jobs[h] # None /\ The(remote.jobs[h]).progress < 100
    /\ remote' = [remote EXCEPT !.jobs[h] =
                      Some([The(@) EXCEPT !.progress = 100, !.state = "uploading"])]
    /\ UNCHANGED <<cfg, seedingEnv, pending, sid, now, torrentTimings,
                   activeTorrentMessages, started, tasks>>

\* Discord reports the bot ready: once
ClientReady(t) ==
    /\ started = "no"
    /\ tasks[t] = <<>>
    /\ Commit(Run([Cur EXCEPT !.tasks[t] = <<readyFrame>>, !.started = "booting"], t))
    /\ UNCHANGED <<cfg, seedingEnv, remote, now>>

\* a fire of the seeding manager's interval
SeedingTimerFires(t) ==
    /\ started = "on"
    /\ Invoke(t, passFrame)

\* the stop-seeds confirmation calls manuallyStopSeeding
StopLists == HashLists \cup {{}}
StopSeedsConfirmed(t) == \E hs \in StopLists : Invoke(t, manualFrame(hs))

\* the addmagnet handler registers the torrent it has just fetched
TorrentAdded(h) ==
    /\ remote.jobs[h] # None
    /\ torrentTimings' = trackTorrentForSeeding(torrentTimings, The(remote.jobs[h]))
    /\ UNCHANGED <<cfg, seedingEnv, pending, sid, remote, now, activeTorrentMessages,
                   started, tasks>>

\* the progress poll has fetched a torrent with progress >= 1
CompletionSeen(h) ==
    /\ remote.jobs[h] # None /\ The(remote.jobs[h]).progress >= 100
    /\ torrentTimings' = markTorrentCompleted(torrentTimings, The(remote.jobs[h]),
                                              now, seedingEnv)
    /\ UNCHANGED <<cfg, seedingEnv, pending, sid, remote, now, activeTorrentMessages,
                   started, tasks>>

EnvValues == {<<>>, <<"1">>}

InitGov ==
    /\ InitCommon
    /\ cfg = [url |-> TRUE, user |-> TRUE, pass |-> TRUE]
    /\ seedingEnv \in EnvValues
    /\ remote = [issued |-> 0, valid |-> {}, created |-> 0, pushed |-> NoPushes,
                 jobs |-> [h \in Hashes |->
                     Some(Snapshot(h, NameOf(h),
                                   IF h = "a" THEN StartTime ELSE StartTime + 1,
                                   50, "downloading"))]]

\* Slot t1 runs the startup and the commands, slot t2 the interval.
NextGov ==
    \/ ClientReady("t1")
    \/ SeedingTimerFires("t2")
    \/ StopSeedsConfirmed("t1")
    \/ \E h \in Hashes : TorrentAdded(h)
    \/ \E h \in Hashes : CompletionSeen(h)
    \/ \E h \in Hashes : RemoteCompletes(h)
    \/ \E t \in Tasks : Respond(t)
    \/ \E t \in Tasks : Finish(t)
    \/ Tick

SpecGov == InitGov /\ [][NextGov]_vars

(* ------------------- the bot after a successful start ------------------ *)
AddMagnet(t) == \E m \in Magnets : Invoke(t, addmagnetFrame(m))
PollTimerFires(t) == Invoke(t, pollFrame)
\* the delete command offers the torrents of a category: here all of them
DeleteLists == {Hashes}
DeleteConfirmed(t) == \E hs \in DeleteLists : Invoke(t, deleteConfirmFrame(hs))

\* the state the ClientReady handler leaves when its login succeeded
InitBot ==
    /\ NoPending
    /\ cfg = [url |-> TRUE, user |-> TRUE, pass |-> TRUE]
    /\ seedingEnv = <<>>
    /\ sid = 1
    /\ remote = [issued |-> 1, valid |-> {1}, created |-> 0, pushed |-> NoPushes,
                 jobs |-> [h \in Hashes |-> None]]
    /\ now = StartTime
    /\ torrentTimings = {}
    /\ activeTorrentMessages = {}
    /\ started = "on"
    /\ tasks = [t \in Tasks |-> <<>>]

\* Slot t1 runs the addmagnet command, slot t2 the two timers, slot t3 the
\* delete confirmation.
NextBot ==
    \/ AddMagnet("t1")
    \/ PollTimerFires("t2")
    \/ SeedingTimerFires("t2")
    \/ DeleteConfirmed("t3")
    \/ \E h \in Hashes : RemoteCompletes(h)
    \/ \E t \in Tasks : Respond(t)
    \/ \E t \in Tasks : Finish(t)

SpecBot == InitBot /\ [][NextBot]_vars

(* --------------- the tracking table under its callers' calls ---------- *)
\* what a caller can hand over: any torrent the remote may list, under the name
\* it has then and with the added_on the remote's clock gave it
\* the remote reports more of a download done
RemoteAdvances(h) ==
    /\ remote.jobs[h] # None /\ The(remote.jobs[h]).progress < 50
    /\ remote' = [remote EXCEPT !.jobs[h] = Some([The(@) EXCEPT !.progress = 50])]
    /\ UNCHANGED <<cfg, seedingEnv, pending, sid, now, torrentTimings,
                   activeTorrentMessages, started, tasks>>

\* a torrent loses its peers or fails: qBittorrent's stalledDL, stalledUP, error
RemoteStalls(h) ==
    /\ remote.jobs[h] # None
    /\ The(remote.jobs[h]).state \in {"downloading", "uploading"}
    /\ \E st \in {"error", IF The(remote.jobs[h]).progress >= 100
                           THEN "stalledUP" ELSE "stalledDL"} :
          remote' = [remote EXCEPT !.jobs[h] = Some([The(@) EXCEPT !.state = st])]
    /\ UNCHANGED <<cfg, seedingEnv, pending, sid, now, torrentTimings,
                   activeTorrentMessages, started, tasks>>

\* the torrent is removed at qBittorrent, not through the bot
RemoteForgets(h) ==
    /\ remote.jobs[h] # None
    /\ remote' = [remote EXCEPT !.jobs[h] = None]
    /\ UNCHANGED <<cfg, seedingEnv, pending, sid, now, torrentTimings,
                   activeTorrentMessages, started, tasks>>

\* The bot after both magnets were added, one after the other, and each got
\* its progress message: records and handles as addmagnet leaves them, no
\* command or timer running, and Discord keeping its log of the two messages.
OpenHandle(h) ==
    TrackedTorrentInfo(h, IF h = "a" THEN 1 ELSE 2, StartTime, NameOf(h))
InitPoll ==
    /\ NoPending
    /\ cfg = [url |-> TRUE, user |-> TRUE, pass |-> TRUE]
    /\ seedingEnv = <<>>
    /\ sid = 1
    /\ remote = [issued |-> 1, valid |-> {1}, created |-> 2,
                 pushed |-> [completed |-> [m \in 1..MaxMsg |-> 0], failed |-> {}],
                 jobs |-> [h \in Hashes |->
                     Some(Snapshot(h, NameOf(h), StartTime, 0, "downloading"))]]
    /\ now = StartTime
    /\ torrentTimings =
          {[hash |-> h, name |-> NameOf(h), downloadStartTime |-> StartTime,
            downloadCompletionTime |-> None, downloadDuration |-> None,
            seedingStopTime |-> None, stopped |-> FALSE] : h \in Hashes}
    /\ activeTorrentMessages = {OpenHandle(h) : h \in Hashes}
    /\ started = "on"
    /\ tasks = [t \in Tasks |-> <<>>]

\* Slot t2 runs the progress poll.
NextPoll ==
    \/ PollTimerFires("t2")
    \/ \E h \in Hashes : RemoteAdvances(h)
    \/ \E h \in Hashes : RemoteCompletes(h)
    \/ \E h \in Hashes : RemoteStalls(h)
    \/ \E h \in Hashes : RemoteForgets(h)
    \/ \E t \in Tasks : Respond(t)
    \/ Tick

SpecPoll == InitPoll /\ [][NextPoll]_vars

\* The two intervals with nothing to hold a fire back: a callback starts
\* whenever its period has passed, whether or not the one before has returned.
\* Slots t1 and t3 take the seeding manager's callbacks, t2 and t3 the poll's.
NextTimers ==
    \/ \E t \in {"t2", "t3"} : PollTimerFires(t)
    \/ \E t \in {"t1", "t3"} : SeedingTimerFires(t)
    \/ \E h \in Hashes : RemoteCompletes(h)
    \/ \E t \in Tasks : Respond(t)
    \/ \E t \in Tasks : Finish(t)

SpecTimers == InitPoll /\ [][NextTimers]_vars

Snapshots ==
    {Snapshot(h, IF renamed THEN "renamed" ELSE NameOf(h), t, p, "downloading") :
        h \in Hashes, renamed \in BOOLEAN, t \in StartTime..MaxTime, p \in Progress}

Track(s) ==
    /\ torrentTimings' = trackTorrentForSeeding(torrentTimings, s)
    /\ UNCHANGED <<cfg, seedingEnv, pending, sid, remote, now, activeTorrentMessages,
                   started, tasks>>

Complete(s) ==
    /\ s.progress >= 100
    /\ torrentTimings' = markTorrentCompleted(torrentTimings, s, now, seedingEnv)
    /\ UNCHANGED <<cfg, seedingEnv, pending, sid, remote, now, activeTorrentMessages,
                   started, tasks>>

Remove(h) ==
    /\ torrentTimings' = removeTorrentTracking(torrentTimings, h)
    /\ UNCHANGED <<cfg, seedingEnv, pending, sid, remote, now, activeTorrentMessages,
                   started, tasks>>

InitTrack ==
    /\ InitCommon
    /\ cfg = [url |-> TRUE, user |-> TRUE, pass |-> TRUE]
    /\ seedingEnv \in EnvValues
    /\ remote = [issued |-> 0, valid |-> {}, created |-> 0, pushed |-> NoPushes,
                 jobs |-> [h \in Hashes |-> None]]

NextTrack ==
    \/ \E s \in Snapshots : Track(s)
    \/ \E s \in Snapshots : Complete(s)
    \/ \E h \in Hashes : Remove(h)
    \/ Tick

SpecTrack == InitTrack /\ [][NextTrack]_vars

(* ======================= the claims: session client =================== *)
\* every frame of a client operation, in every task
ClientFrames == {<<t, k>> \in Tasks \X (1..3) :
                    k <= Len(tasks[t]) /\ tasks[t][k].kind = "client"}

C1_Counts ==
    \A p \in ClientFrames :
        LET f == tasks[p[1]][p[2]] IN
        /\ f.nReq <= 2 /\ f.nRelogin <= 1 /\ Len(f.codes) <= f.nReq
        /\ f.nRelogin = 1 <=> (f.codes # <<>> /\ f.codes[1] = "403")
        /\ f.nReq = 2 => f.nRelogin = 1
        /\ (f.pc = "done" /\ f.codes = <<"403">>)
              => f.res = Failure(f.op, "relogin_failed")
        /\ (f.pc = "done" /\ Len(f.codes) = 2 /\ f.codes[2] # "ok")
              => f.res = Failure(f.op, "retry_failed")

\* the step in which the first request of t's operation is answered 403
C1_On403(t) ==
    LET st == tasks[t]
        n == Len(st)
    IN (/\ n >= 1 /\ st[n].kind = "client" /\ st[n].pc = "w_req1"
        /\ Len(tasks'[t]) >= n /\ tasks'[t][n].codes = <<"403">>)
       => (/\ sid' = 0
           /\ Len(tasks'[t]) = n + 1
           /\ tasks'[t][n].pc = "afterLogin2"
           /\ tasks'[t][n + 1].kind = "login" /\ tasks'[t][n + 1].pc = "w_post")

\* C1: for list, get-by-id, add, pause and delete alike, a 403 to the first
\* request clears sid and starts exactly one login; the request is sent again
\* only after that login succeeded and only once; a failed re-login or a failed
\* retry (a second 403 included) ends the operation with its error value; no
\* invocation sends more than two requests or logs in again more than once.
C1_RetryOnce == []C1_Counts /\ [][\A t \in Tasks : C1_On403(t)]_vars

\* a pause whose first request and whose retry were both answered 403
C1_Witness ==
    \E t \in Tasks :
        /\ Finished(tasks[t]) /\ tasks[t][1].kind = "client"
        /\ tasks[t][1].op = "pause" /\ tasks[t][1].codes = <<"403", "403">>
        /\ tasks[t][1].res = FALSE

\* the step in which t's getTorrents() returns after a 403, a login and a retry
C2_Returns(t) ==
    LET st == tasks[t] IN
    (/\ Len(st) = 1 /\ st[1].kind = "client" /\ st[1].op = "list"
     /\ st[1].pc = "w_req2"
     /\ Len(tasks'[t]) = 1 /\ tasks'[t][1].codes = <<"403", "ok">>)
    => (/\ tasks'[t][1].pc = "done"
        /\ tasks'[t][1].nRelogin = 1 /\ tasks'[t][1].nReq = 2
        /\ tasks'[t][1].res.error = None
        /\ tasks'[t][1].res.torrents \in {Some(l) : l \in Listings(remote)})

\* C2: a getTorrents() whose first request is answered 403 and whose retry is
\* answered 2xx has logged in again exactly once, sent exactly two requests,
\* and returns the torrents the remote held when it answered the retry.
C2_ListAfterRelogin == [][\A t \in Tasks : C2_Returns(t)]_vars

\* such a call has returned a non-empty list
C2_Witness ==
    \E t \in Tasks :
        /\ Finished(tasks[t]) /\ tasks[t][1].kind = "client"
        /\ tasks[t][1].op = "list" /\ tasks[t][1].codes = <<"403", "ok">>
        /\ tasks[t][1].res.torrents # None /\ The(tasks[t][1].res.torrents) # <<>>

(* ======================= the claims: seeding manager ================== *)
Stopped(tt, h) == \E e \in tt : e.hash = h /\ e.stopped

\* task t is suspended in the pause request of its own sweep or manual stop
AwaitsOwnPause(t, kinds) ==
    LET st == tasks[t]
        n == Len(st)
    IN /\ n >= 2
       /\ st[n].kind = "client" /\ st[n].op = "pause"
       /\ st[n].pc \in {"w_req1", "w_req2"}
       /\ st[n - 1].kind \in kinds /\ st[n - 1].pc = "afterPause"
       /\ st[n].arg = st[n - 1].hashes
PauseBatch(t) == tasks[t][Len(tasks[t]) - 1].hashes
PauseAnswers(t) == Answers(tasks[t][Len(tasks[t])].req, remote, now)

\* C3: a record's stopped flag turns true only in the step in which a sweep or
\* a manual stop receives the successful answer to the pause it issued itself
\* for a batch holding that id; no other step (track, completion, reconcile,
\* poll, another caller's pause) turns it true.
C3_Turns(h) == Stopped(torrentTimings', h) /\ ~Stopped(torrentTimings, h)
C3_StoppedByOwnPause ==
    [][\A h \in Hashes : C3_Turns(h) =>
          \E t \in Tasks :
             /\ AwaitsOwnPause(t, {"sweep", "manual"})
             /\ h \in PauseBatch(t)
             /\ \E a \in PauseAnswers(t) : a.resp.code = "ok" /\ Deliver(t, a)]_vars
\* a manual stop of a batch holding "a" has returned true and "a" is stopped
C3_Witness ==
    /\ Stopped(torrentTimings, "a")
    /\ Finished(tasks["t1"]) /\ tasks["t1"][1].kind = "manual"
    /\ tasks["t1"][1].res /\ "a" \in tasks["t1"][1].hashes

\* C4: a sweep with a batch awaits exactly one pause call, for the whole batch;
\* when that call returns true every record of the batch is stopped and nothing
\* else changes, when it returns false no record changes at all.
C4_OnePause ==
    \A t \in Tasks : \A k \in 1..Len(tasks[t]) :
        tasks[t][k].kind = "sweep" /\ tasks[t][k].pc = "afterPause" =>
            /\ tasks[t][k].hashes # {}
            /\ Len(tasks[t]) > k
            /\ tasks[t][k + 1].kind = "client" /\ tasks[t][k + 1].op = "pause"
            /\ tasks[t][k + 1].arg = tasks[t][k].hashes
C4_SweepReturns(t) ==
    /\ AwaitsOwnPause(t, {"sweep"})
    /\ Len(tasks'[t]) < Len(tasks[t]) - 1
C4_Outcome(t) ==
    \A a \in PauseAnswers(t) : Deliver(t, a) =>
        IF a.resp.code = "ok"
        THEN torrentTimings' =
                {IF e.hash \in PauseBatch(t) THEN [e EXCEPT !.stopped = TRUE] ELSE e :
                    e \in torrentTimings}
        ELSE torrentTimings' = torrentTimings
C4_AllOrNothing ==
    []C4_OnePause /\ [][\A t \in Tasks : C4_SweepReturns(t) => C4_Outcome(t)]_vars
\* a sweep of both torrents has returned success and both are stopped
C4_Witness ==
    /\ Finished(tasks["t2"]) /\ tasks["t2"][1].kind = "pass" /\ tasks["t2"][1].ret
    /\ Stopped(torrentTimings, "a") /\ Stopped(torrentTimings, "b")
    /\ tasks["t1"] = <<>>
\* a sweep of a due batch has returned failure: the batch is still due
C4_WitnessFailure ==
    /\ Finished(tasks["t2"]) /\ tasks["t2"][1].kind = "pass" /\ ~tasks["t2"][1].ret
    /\ torrentsToStop(torrentTimings, now) = Hashes

\* C5: a stopped record stays stopped, and a sweep that starts when a record is
\* stopped issues a pause that does not hold the record's id (over track,
\* completion, reconcile, sweep and manual stop).
SweepFrames(st) == {k \in 1..Len(st) : st[k].kind = "sweep"}
C5_SweepStarts(t) == SweepFrames(tasks[t]) = {} /\ SweepFrames(tasks'[t]) # {}
C5_StartedBatch(t) == tasks'[t][CHOOSE k \in SweepFrames(tasks'[t]) : TRUE].hashes
C5_StaysStopped ==
    \A h \in Hashes : Stopped(torrentTimings, h) => Stopped(torrentTimings', h)
C5_StoppedNotPausedAgain ==
    [][/\ C5_StaysStopped
       /\ \A t \in Tasks : C5_SweepStarts(t) =>
             \A h \in C5_StartedBatch(t) : ~Stopped(torrentTimings, h)]_vars
\* "a" is stopped and past its stop time while a sweep pauses "b" alone
C5_Witness ==
    /\ Stopped(torrentTimings, "a")
    /\ \E e \in torrentTimings :
          e.hash = "a" /\ e.seedingStopTime # None /\ The(e.seedingStopTime) < now
    /\ SweepFrames(tasks["t2"]) # {}
    /\ tasks["t2"][2].hashes = {"b"}
    /\ tasks["t1"] = <<>>

\* C6: every record with its completion fields set has
\* downloadDuration = downloadCompletionTime - downloadStartTime and
\* seedingStopTime = downloadCompletionTime + multiplier * downloadDuration,
\* the multiplier being the configured positive integer, 10 when none is set.
C6_Multiplier ==
    CASE seedingEnv = <<>> -> 10
      [] seedingEnv = <<"1">> -> 1
C6_StopTimeFormula ==
    \A e \in torrentTimings :
        e.downloadCompletionTime # None =>
            /\ e.downloadDuration =
                  Some(The(e.downloadCompletionTime) - e.downloadStartTime)
            /\ e.seedingStopTime =
                  Some(The(e.downloadCompletionTime)
                       + C6_Multiplier * The(e.downloadDuration))
\* a download that took one second under the default multiplier
C6_Witness ==
    \E e \in torrentTimings :
        /\ seedingEnv = <<>>
        /\ e.downloadDuration = Some(1)
        /\ e.seedingStopTime = Some(The(e.downloadCompletionTime) + 10)

\* C7: in every state the three completion fields of a record are all unset or
\* all set, and once set they keep their values in every later step: a further
\* completion report, from the poll or from reconcile, changes nothing.
C7_AllOrNone ==
    \A e \in torrentTimings :
        \/ /\ e.downloadCompletionTime = None
           /\ e.downloadDuration = None
           /\ e.seedingStopTime = None
        \/ /\ e.downloadCompletionTime # None
           /\ e.downloadDuration # None
           /\ e.seedingStopTime # None
C7_Kept ==
    \A e \in torrentTimings :
        e.downloadCompletionTime # None =>
            \E x \in torrentTimings' :
                /\ x.hash = e.hash
                /\ x.downloadCompletionTime = e.downloadCompletionTime
                /\ x.downloadDuration = e.downloadDuration
                /\ x.seedingStopTime = e.seedingStopTime
C7_CompletionSetOnce == []C7_AllOrNone /\ [][C7_Kept]_vars
\* a record completed in an earlier second while a later pass has listed the
\* finished torrent again
C7_Witness ==
    /\ \E e \in torrentTimings :
          e.hash = "a" /\ e.downloadCompletionTime # None
                       /\ The(e.downloadCompletionTime) < now
    /\ remote.jobs["a"] # None /\ The(remote.jobs["a"]).progress >= 100
    /\ Len(tasks["t2"]) >= 1 /\ tasks["t2"][1].kind = "pass"
    /\ tasks["t2"][1].pc \in {"afterCheck", "done"}

\* C8: the batch a sweep pauses holds exactly the ids whose record is not
\* stopped, has a stop time and whose stop time the clock has reached; starting
\* the sweep changes no record, a sweep without a due record sends nothing, and
\* the ids of a batch are stopped once its pause is answered with success.
C8_Due(tt, clock) ==
    {h \in Hashes : \E e \in tt :
        /\ e.hash = h /\ ~e.stopped
        /\ e.seedingStopTime # None /\ The(e.seedingStopTime) <= clock}
\* the sweep of task t's pass begins in this step, after the list's answer
C8_SweepBegins(t) ==
    /\ Len(tasks[t]) >= 3
    /\ tasks[t][1].kind = "pass" /\ tasks[t][1].pc = "afterUpdate"
    /\ tasks'[t] # <<>>
    /\ tasks'[t][1].kind = "pass" /\ tasks'[t][1].pc \in {"afterCheck", "done"}
C8_AfterReconcile ==
    {torrentTimings}
    \cup {reconcileAll(torrentTimings, l, now, seedingEnv) : l \in Listings(remote)}
C8_Begun(t) ==
    /\ torrentTimings' \in C8_AfterReconcile
    /\ IF C8_Due(torrentTimings', now) = {}
       THEN Finished(tasks'[t])
       ELSE /\ Len(tasks'[t]) >= 3
            /\ tasks'[t][2].kind = "sweep"
            /\ tasks'[t][2].hashes = C8_Due(torrentTimings', now)
            /\ tasks'[t][3].kind = "client" /\ tasks'[t][3].op = "pause"
            /\ tasks'[t][3].arg = C8_Due(torrentTimings', now)
C8_Paused(t) ==
    \A a \in PauseAnswers(t) :
        (a.resp.code = "ok" /\ Deliver(t, a)) =>
            \A h \in PauseBatch(t) : Stopped(torrentTimings', h)
C8_ExactBatch ==
    [][\A t \in Tasks :
          /\ C8_SweepBegins(t) => C8_Begun(t)
          /\ AwaitsOwnPause(t, {"sweep"}) => C8_Paused(t)]_vars
\* a sweep pauses "a" in the very second of its stop time and leaves out "b",
\* whose stop time is a second away
C8_Witness ==
    /\ SweepFrames(tasks["t2"]) # {}
    /\ tasks["t2"][2].hashes = {"a"}
    /\ \E e \in torrentTimings :
          e.hash = "a" /\ e.seedingStopTime = Some(now) /\ The(e.downloadDuration) > 0
    /\ \E e \in torrentTimings :
          e.hash = "b" /\ ~e.stopped /\ e.seedingStopTime = Some(now + 1)
\* a sweep has skipped the one record whose stop time is a second away
C8_WitnessEarly ==
    /\ Finished(tasks["t2"]) /\ tasks["t2"][1].kind = "pass"
    /\ \A e \in torrentTimings : ~e.stopped /\ e.seedingStopTime = Some(now + 1)
    /\ torrentTimings # {}

(* ================== the claims: records and handles =================== *)
\* C9: in every state torrentTimings holds at most one record per hash and
\* activeTorrentMessages at most one handle per hash.
C9_OnePerId ==
    /\ \A e1, e2 \in torrentTimings : e1.hash = e2.hash => e1 = e2
    /\ \A e1, e2 \in activeTorrentMessages : e1.hash = e2.hash => e1 = e2
\* "a" got a second handle, which took the place of its first, and is tracked
C9_Witness ==
    /\ \E e \in activeTorrentMessages : e.hash = "a" /\ e.message = 2 /\ e.ord = 1
    /\ \E e \in torrentTimings : e.hash = "a"

\* C10: a trackTorrentForSeeding call for a hash that has a record changes
\* nothing, whatever the snapshot says; for a hash without a record it adds
\* exactly one record, with downloadStartTime = added_on, no completion field
\* and stopped = false; a second call with the same snapshot changes nothing.
C10_Effect(s) ==
    /\ IF \E e \in torrentTimings : e.hash = s.hash
       THEN torrentTimings' = torrentTimings
       ELSE \E e \in torrentTimings' :
               /\ torrentTimings' \ {e} = torrentTimings
               /\ e.hash = s.hash /\ e.name = s.name
               /\ e.downloadStartTime = s.added_on
               /\ e.downloadCompletionTime = None /\ e.downloadDuration = None
               /\ e.seedingStopTime = None
               /\ e.stopped = FALSE
    /\ trackTorrentForSeeding(torrentTimings', s) = torrentTimings'
C10_TrackIdempotent == [][\A s \in Snapshots : Track(s) => C10_Effect(s)]_vars
\* a completed record of "a" whose name and start differ from a later snapshot
C10_Witness ==
    \E e \in torrentTimings :
        /\ e.hash = "a" /\ e.name = "renamed" /\ e.downloadStartTime = StartTime
        /\ e.downloadCompletionTime # None
        /\ now > StartTime

(* ================= the claims: reconcile, completion, stop ============ *)
\* task t is suspended in the list request of its updateTorrentCompletionStatus
AwaitsOwnList(t) ==
    LET st == tasks[t]
        n == Len(st)
    IN /\ n >= 2
       /\ st[n].kind = "client" /\ st[n].op = "list"
       /\ st[n].pc \in {"w_req1", "w_req2"}
       /\ st[n - 1].kind = "reconcile" /\ st[n - 1].pc = "afterList"

\* C11: when updateTorrentCompletionStatus has gone through a list of the
\* remote's torrents, going through any list of the same torrents again, in the
\* same or a later second, leaves every record as it is and adds none; and no
\* pause request is ever sent on behalf of updateTorrentCompletionStatus.
C11_SecondCallNoOp(t) ==
    \A a \in PauseAnswers(t) :
        (a.resp.code = "ok" /\ Deliver(t, a)) =>
            /\ torrentTimings' = reconcileAll(torrentTimings, a.resp.data, now,
                                              seedingEnv)
            /\ \A l \in Listings(remote') : \A clock \in now..MaxTime :
                   reconcileAll(torrentTimings', l, clock, seedingEnv)
                       = torrentTimings'
C11_NoPause ==
    \A t \in Tasks : \A k \in 1..Len(tasks[t]) :
        tasks[t][k].kind = "reconcile" =>
            \A j \in (k + 1)..Len(tasks[t]) :
                tasks[t][j].kind = "client" => tasks[t][j].op = "list"
C11_ReconcileIdempotent ==
    []C11_NoPause
    /\ [][\A t \in Tasks : AwaitsOwnList(t) => C11_SecondCallNoOp(t)]_vars
\* a pass has listed both torrents again: "a", completed in an earlier second
\* and still finished, and "b", tracked and still downloading
C11_Witness ==
    /\ tasks["t2"] # <<>> /\ tasks["t2"][1].kind = "pass"
    /\ tasks["t2"][1].pc \in {"afterCheck", "done"}
    /\ \E e \in torrentTimings :
          /\ e.hash = "a" /\ e.downloadCompletionTime # None
          /\ The(e.downloadCompletionTime) < now
    /\ \E e \in torrentTimings : e.hash = "b" /\ e.downloadCompletionTime = None
    /\ The(remote.jobs["b"]).progress < 100

\* C12: markTorrentCompleted changes the table only when the table holds a
\* record for the snapshot's hash whose completion fields are unset and the
\* snapshot is finished; for an unknown hash, an unfinished snapshot or a
\* record already completed it changes nothing and adds no record.
C12_Changes(s) ==
    markTorrentCompleted(torrentTimings, s, now, seedingEnv) # torrentTimings
C12_MayChange(s) ==
    /\ \E e \in torrentTimings :
          e.hash = s.hash /\ ~Truthy(e.downloadCompletionTime)
    /\ s.progress >= 100
C12_NoOpOtherwise == \A s \in Snapshots : C12_Changes(s) => C12_MayChange(s)

\* C12 as the code has it: markTorrentCompleted leaves the table alone only
\* when the record of the snapshot's hash already has a completion time; in
\* every other case, whatever the snapshot's progress, the table afterwards
\* holds exactly one record of that hash, completed at the current second,
\* started at the old record's start or, for an unknown hash, at the
\* snapshot's added_on; the records of other hashes are untouched.
C12_AlreadyCompleted(s) ==
    \E e \in torrentTimings :
        e.hash = s.hash /\ Truthy(e.downloadCompletionTime)
C12_Start(s) ==
    IF \E e \in torrentTimings : e.hash = s.hash
    THEN (CHOOSE e \in torrentTimings : e.hash = s.hash).downloadStartTime
    ELSE s.added_on
C12_Result(s) ==
    LET r == markTorrentCompleted(torrentTimings, s, now, seedingEnv)
    IN IF C12_AlreadyCompleted(s) THEN r = torrentTimings
       ELSE /\ {e \in r : e.hash # s.hash} =
                   {e \in torrentTimings : e.hash # s.hash}
            /\ Cardinality({e \in r : e.hash = s.hash}) = 1
            /\ \A e \in r : e.hash = s.hash =>
                  /\ e.downloadStartTime = C12_Start(s)
                  /\ e.downloadCompletionTime = Some(now)
                  /\ e.downloadDuration = Some(now - C12_Start(s))
                  /\ e.seedingStopTime =
                        Some(now + SEEDING_MULTIPLIER(seedingEnv)
                                       * (now - C12_Start(s)))
C12_CompletesUnlessCompleted == \A s \in Snapshots : C12_Result(s)

\* a completion has been recorded after its download's start, another still
\* can be, and the third case, an unknown hash, is at hand
C12_Witness ==
    /\ \E e \in torrentTimings :
          /\ e.hash = "a" /\ e.downloadCompletionTime = Some(now)
          /\ e.downloadStartTime < now
    /\ ~ \E e \in torrentTimings : e.hash = "b"

\* The same reading on the running bot: the completion fields of a hash become
\* set only on a record the table held before the step.
Completed(tt, h) == \E e \in tt : e.hash = h /\ e.downloadCompletionTime # None
C12_CompletionOnlyOnRecord ==
    [][\A h \in Hashes :
          (Completed(torrentTimings', h) /\ ~Completed(torrentTimings, h)) =>
              \E e \in torrentTimings : e.hash = h]_vars
\* C13: a manual stop of a non-empty id list awaits at once one pause call for
\* exactly those ids, whatever the records say; when that call returns true
\* every record among the ids is stopped and the stop returns true, when it
\* returns false no record changes and the stop returns false; neither step
\* adds a record; a manual stop of the empty list returns false at once and
\* sends nothing.
C13_Begins(t, hs) ==
    Invoke(t, manualFrame(hs)) =>
        /\ torrentTimings' = torrentTimings
        /\ IF hs = {}
           THEN /\ Finished(tasks'[t]) /\ ~tasks'[t][1].res
                /\ remote' = remote
           ELSE /\ Len(tasks'[t]) >= 2 /\ Waiting(tasks'[t])
                /\ tasks'[t][1].kind = "manual" /\ tasks'[t][1].pc = "afterPause"
                /\ tasks'[t][2].kind = "client" /\ tasks'[t][2].op = "pause"
                /\ tasks'[t][2].arg = hs
C13_Returns(t) ==
    (AwaitsOwnPause(t, {"manual"}) /\ Finished(tasks'[t])) =>
        \A a \in PauseAnswers(t) : Deliver(t, a) =>
            IF a.resp.code = "ok"
            THEN /\ tasks'[t][1].res
                 /\ torrentTimings' =
                       {IF e.hash \in PauseBatch(t) THEN [e EXCEPT !.stopped = TRUE]
                        ELSE e : e \in torrentTimings}
            ELSE /\ ~tasks'[t][1].res
                 /\ torrentTimings' = torrentTimings
C13_ManualStop ==
    [][\A t \in Tasks : C13_Returns(t) /\ \A hs \in StopLists : C13_Begins(t, hs)]_vars
\* a manual stop of both ids has returned true: the tracked one, whose
\* download has not even finished, is stopped and the other has no record
C13_Witness ==
    /\ Finished(tasks["t1"]) /\ tasks["t1"][1].kind = "manual"
    /\ tasks["t1"][1].res /\ tasks["t1"][1].hashes = {"a", "b"}
    /\ \E e \in torrentTimings :
          e.hash = "a" /\ e.stopped /\ e.seedingStopTime = None
    /\ ~ \E e \in torrentTimings : e.hash = "b"
\* a manual stop of the empty list has returned false
C13_WitnessEmpty ==
    /\ Finished(tasks["t1"]) /\ tasks["t1"][1].kind = "manual"
    /\ ~tasks["t1"][1].res /\ tasks["t1"][1].hashes = {}
(* -------------------- the claims: the progress poll -------------------- *)
\* task t is suspended in the fetch its poll made for the handle it holds
AwaitsOwnGet(t) ==
    LET st == tasks[t] IN
    /\ Len(st) = 2
    /\ st[2].kind = "client" /\ st[2].op = "get" /\ st[2].pc \in {"w_req1", "w_req2"}
    /\ st[1].kind = "poll" /\ st[1].pc = "afterGet"
    /\ st[2].arg = st[1].cur.hash
HeldMessage(t) == tasks[t][1].cur.message
HandleOpen(m, message) == \E e \in m : e.message = message /\ ~e.isCompleted
\* the torrent an answer to the fetch reports, if it reports one
Reported(a) == IF a.resp.code = "ok" THEN a.resp.data ELSE {}
\* task t is suspended in an edit of `message` to `text`
PushesNow(st, message, text) ==
    /\ Len(st) = 1 /\ st[1].kind = "poll" /\ st[1].pc \in {"w_edit", "w_gone"}
    /\ st[1].req = [kind |-> "edit", message |-> message, text |-> text]
\* completion pushes of `message`: those Discord has seen and those under way
CompletedPushes(message) ==
    remote.pushed.completed[message]
    + Cardinality({t \in Tasks : PushesNow(tasks[t], message, "completed")})

\* C14: when a poll's fetch reports progress 1 for the open handle it holds,
\* the same step starts the push of the completion text to the handle's
\* message and takes the handle out of the Map; over the whole run a message
\* gets at most one completion push.
C14_Detects(t) ==
    \A a \in PauseAnswers(t) :
        ( /\ Deliver(t, a)
          /\ HandleOpen(activeTorrentMessages, HeldMessage(t))
          /\ \E x \in Reported(a) : x.progress >= 100 ) =>
            /\ PushesNow(tasks'[t], HeldMessage(t), "completed")
            /\ ~ \E e \in activeTorrentMessages' : e.message = HeldMessage(t)
C14_AtMostOnce == \A m \in 1..MaxMsg : CompletedPushes(m) <= 1
C14_OneCompletedPush ==
    []C14_AtMostOnce /\ [][\A t \in Tasks : AwaitsOwnGet(t) => C14_Detects(t)]_vars
\* the first message got its completion push in an earlier pass; a later pass
\* is at the second message
C14_Witness ==
    /\ remote.pushed.completed[1] = 1
    /\ ~ \E e \in activeTorrentMessages : e.hash = "a"
    /\ \E e \in activeTorrentMessages : e.hash = "b" /\ e.lastProgress = 50
    /\ AwaitsOwnGet("t2")
\* C15: the step in which a poll's fetch reports progress 1 for the open
\* handle it holds is the step that calls markTorrentCompleted with the fetched
\* torrent: after it the record has its completion fields, set to the current
\* second if they were unset; the answer to the push that follows, success or
\* failure, changes no record.
C15_Marks(t) ==
    \A a \in PauseAnswers(t) : \A x \in Reported(a) :
        ( /\ Deliver(t, a)
          /\ HandleOpen(activeTorrentMessages, HeldMessage(t))
          /\ x.progress >= 100 ) =>
            /\ torrentTimings' = markTorrentCompleted(torrentTimings, x, now, seedingEnv)
            /\ Completed(torrentTimings', x.hash)
            /\ ~Completed(torrentTimings, x.hash) =>
                  \A e \in torrentTimings' :
                      e.hash = x.hash => e.downloadCompletionTime = Some(now)
C15_PushAnswered(t) ==
    ( /\ tasks[t] # <<>> /\ tasks[t][1].kind = "poll"
      /\ tasks[t][Len(tasks[t])].req.kind = "edit" ) =>
        \A a \in PauseAnswers(t) : Deliver(t, a) => torrentTimings' = torrentTimings
C15_MarkedAtDetection ==
    [][\A t \in Tasks : /\ AwaitsOwnGet(t) => C15_Marks(t)
                        /\ C15_PushAnswered(t)]_vars
\* the completion push of the first message was rejected, and the record of
\* its torrent is completed all the same
C15_Witness ==
    /\ remote.pushed.completed[1] = 1 /\ 1 \in remote.pushed.failed
    /\ Completed(torrentTimings, "a")
    /\ tasks["t2"] = <<>>
\* the handles a pass that has got as far as `last` still has to visit
Remaining(m, last) == {e \in m : e.ord > last /\ ~e.isCompleted}
\* task t's pass goes on after the handle it held: to the fetch for the next
\* handle in insertion order, or to its end when none is left
Continues(t) ==
    LET rest == Remaining(activeTorrentMessages', tasks[t][1].last) IN
    IF rest = {} THEN tasks'[t] = <<>>
    ELSE /\ Len(tasks'[t]) = 2 /\ tasks'[t][1].pc = "afterGet"
         /\ tasks'[t][1].cur \in rest
         /\ \A e \in rest : tasks'[t][1].cur.ord <= e.ord
         /\ tasks'[t][2].kind = "client" /\ tasks'[t][2].op = "get"
         /\ tasks'[t][2].arg = tasks'[t][1].cur.hash

\* C16: when the fetch for a held handle is answered without a torrent, the
\* same step starts one push of the `no longer found` text to the handle's
\* message; the step that receives the outcome of that push, success or
\* failure, takes the handle out of the Map and goes on with the handles that
\* remain.
C16_Gone(t) ==
    \A a \in PauseAnswers(t) :
        (Deliver(t, a) /\ a.resp.code = "ok" /\ a.resp.data = {}) =>
            /\ PushesNow(tasks'[t], HeldMessage(t), "gone")
            /\ activeTorrentMessages' = activeTorrentMessages
C16_Removed(t) ==
    PushesNow(tasks[t], HeldMessage(t), "gone") =>
        \A a \in PauseAnswers(t) : Deliver(t, a) =>
            /\ activeTorrentMessages' =
                  {e \in activeTorrentMessages : e.hash # tasks[t][1].cur.hash}
            /\ ~ \E e \in activeTorrentMessages' : e.message = HeldMessage(t)
            /\ Continues(t)
C16_GoneRemoved ==
    [][\A t \in Tasks : tasks[t] # <<>> =>
          /\ AwaitsOwnGet(t) => C16_Gone(t)
          /\ C16_Removed(t)]_vars
\* the first torrent is gone from the remote and the pass is pushing the
\* `no longer found` text to its message, the second handle still to come
C16_Witness ==
    /\ remote.jobs["a"] = None
    /\ PushesNow(tasks["t2"], 1, "gone")
    /\ activeTorrentMessages = {OpenHandle(h) : h \in Hashes}
\* C17: when the fetch for an open handle reports a torrent below progress 1
\* whose state is an error or a stalled state, the same step takes the handle
\* out of the Map and starts one push of the status text, and the step that
\* receives the push's outcome leaves the handle out and goes on with the
\* pass; a torrent at progress 1 in such a state gets the completion text.
StalledStates == {"error", "stalledDL", "stalledUP"}
C17_Found(t) ==
    \A a \in PauseAnswers(t) : \A x \in Reported(a) :
        ( /\ Deliver(t, a)
          /\ HandleOpen(activeTorrentMessages, HeldMessage(t))
          /\ x.state \in StalledStates ) =>
            /\ PushesNow(tasks'[t], HeldMessage(t),
                         IF x.progress >= 100 THEN "completed" ELSE "stalled")
            /\ ~ \E e \in activeTorrentMessages' : e.message = HeldMessage(t)
C17_Pushed(t) ==
    PushesNow(tasks[t], HeldMessage(t), "stalled") =>
        \A a \in PauseAnswers(t) : Deliver(t, a) =>
            /\ ~ \E e \in activeTorrentMessages' : e.message = HeldMessage(t)
            /\ Continues(t)
C17_StalledClosed ==
    [][\A t \in Tasks : tasks[t] # <<>> =>
          /\ AwaitsOwnGet(t) => C17_Found(t)
          /\ C17_Pushed(t)]_vars
\* the first torrent stalled half way and its handle was closed for that; the
\* second, finished and stalled, is getting its completion text
C17_Witness ==
    /\ remote.jobs["a"] = Some(Snapshot("a", NameOf("a"), StartTime, 50, "stalledDL"))
    /\ ~ \E e \in activeTorrentMessages : e.hash = "a"
    /\ 1 \notin remote.pushed.failed /\ remote.pushed.completed[1] = 0
    /\ PushesNow(tasks["t2"], 2, "completed")
    /\ tasks["t2"][1].torrent =
          Some(Snapshot("b", NameOf("b"), StartTime, 100, "stalledUP"))
\* C18: when the fetch for an open handle reports a torrent that is neither
\* finished nor in an error or stalled state and whose progress equals the
\* handle's lastProgress, the pass pushes nothing for that handle.
HeldLastProgress(t) ==
    (CHOOSE e \in activeTorrentMessages : e.message = HeldMessage(t)).lastProgress
C18_Unchanged(t, x) ==
    /\ HandleOpen(activeTorrentMessages, HeldMessage(t))
    /\ x.progress < 100 /\ x.state \notin StalledStates
    /\ x.progress = HeldLastProgress(t)
C18_PushOnlyOnChange ==
    [][\A t \in Tasks : AwaitsOwnGet(t) =>
          \A a \in PauseAnswers(t) : \A x \in Reported(a) :
              (Deliver(t, a) /\ C18_Unchanged(t, x)) =>
                  ~ \E text \in {"progress", "stalled", "completed", "gone"} :
                        PushesNow(tasks'[t], HeldMessage(t), text)]_vars
\* C19: when the push a pass has under way for a handle is rejected, the step
\* that receives the rejection leaves the handle out of the Map and goes on
\* with the pass; no push is ever under way to a message that had one
\* rejected.
Texts == {"progress", "stalled", "completed", "gone"}
C19_Rejected(t) ==
    (\E text \in Texts : PushesNow(tasks[t], HeldMessage(t), text)) =>
        \A a \in PauseAnswers(t) : (Deliver(t, a) /\ a.resp.code = "err") =>
            /\ ~ \E e \in activeTorrentMessages' : e.message = HeldMessage(t)
            /\ Continues(t)
C19_NotAgain ==
    \A t \in Tasks : \A m \in remote.pushed.failed : \A text \in Texts :
        ~PushesNow(tasks[t], m, text)
C19_FailedClosed ==
    []C19_NotAgain /\ [][\A t \in Tasks : tasks[t] # <<>> => C19_Rejected(t)]_vars

\* C20: at most one poll pass and at most one seeding-manager pass is in
\* progress at any time.
InProgress(kind) ==
    {t \in Tasks : tasks[t] # <<>> /\ tasks[t][1].kind = kind /\ ~Finished(tasks[t])}
C20_NoOverlap ==
    /\ Cardinality(InProgress("poll")) <= 1
    /\ Cardinality(InProgress("pass")) <= 1
(* ------------------ the claims: failures and the timers ---------------- *)
\* C21: a pass of either timer that gets a failure for the request it awaits
\* (the list, the pause, the fetch, the push) goes on or returns like any
\* other pass and the intervals stay armed; a failed pause leaves every record as it was, an id that is due stays
\* due until it is stopped, and every sweep that begins pauses exactly the due
\* ids, so the sweep after a failed one pauses the same ids again.
TimerPass(t) == tasks[t] # <<>> /\ tasks[t][1].kind \in {"pass", "poll"}
C21_Survives(t) ==
    \A a \in PauseAnswers(t) :
        (a.resp.code # "ok" /\ Deliver(t, a)) =>
            /\ started' = "on"
            /\ tasks'[t] = <<>> \/ Finished(tasks'[t]) \/ Waiting(tasks'[t])
            /\ tasks[t][1].kind = "pass" => torrentTimings' = torrentTimings
            /\ AwaitsOwnPause(t, {"sweep"}) =>
                  /\ Finished(tasks'[t]) /\ ~tasks'[t][1].ret
                  /\ \A h \in PauseBatch(t) :
                        Stopped(torrentTimings', h) \/ h \in C8_Due(torrentTimings', now)
C21_DueStays ==
    \A h \in C8_Due(torrentTimings, now) :
        Stopped(torrentTimings', h) \/ h \in C8_Due(torrentTimings', now')
\* the intervals are armed and every callback is suspended in a request that
\* will be answered, or has returned
C21_Armed ==
    /\ started = "on"
    /\ \A t \in Tasks : tasks[t] = <<>> \/ Finished(tasks[t]) \/ Waiting(tasks[t])
C21_FailingPass ==
    /\ []C21_Armed
    /\ [][/\ C21_DueStays
          /\ \A t \in Tasks :
                /\ (TimerPass(t) /\ Waiting(tasks[t]) /\ tasks'[t] # tasks[t])
                      => C21_Survives(t)
                /\ C8_SweepBegins(t) => C8_Begun(t)]_vars
\* one pass has returned from a failed pause of both ids, a push of the poll
\* was rejected, and the next pass is pausing both ids again
C21_Witness ==
    /\ Finished(tasks["t1"]) /\ tasks["t1"][1].kind = "pass" /\ ~tasks["t1"][1].ret
    /\ AwaitsOwnPause("t3", {"sweep"}) /\ PauseBatch("t3") = Hashes
    /\ remote.pushed.failed # {}

(* ---------------- the seeding manager under fair scheduling ------------ *)
\* the state after a successful start and two addmagnet registrations: both
\* jobs are downloading and tracked, the session is valid, no pass is running
InitSeeding ==
    /\ NoPending
    /\ cfg = [url |-> TRUE, user |-> TRUE, pass |-> TRUE]
    /\ seedingEnv \in EnvValues
    /\ sid = 1
    /\ remote = [issued |-> 1, valid |-> {1}, created |-> 0, pushed |-> NoPushes,
                 jobs |-> [h \in Hashes |->
                     Some(Snapshot(h, NameOf(h),
                                   IF h = "a" THEN StartTime ELSE StartTime + 1,
                                   50, "downloading"))]]
    /\ now = StartTime
    /\ torrentTimings =
          trackTorrentForSeeding(
              trackTorrentForSeeding({}, The(remote.jobs["a"])), The(remote.jobs["b"]))
    /\ activeTorrentMessages = {}
    /\ started = "on"
    /\ tasks = [t \in Tasks |-> <<>>]

\* the remote reports success for the pause a sweep is waiting for
PauseSucceeds(t) ==
    /\ AwaitsOwnPause(t, {"sweep"})
    /\ \E a \in PauseAnswers(t) : a.resp.code = "ok" /\ Deliver(t, a)
    /\ UNCHANGED <<cfg, seedingEnv, now>>

\* Slot t2 runs the interval's passes: setInterval fires again and again, every
\* request is answered, a finished pass is dropped, seconds pass.
NextSeeding ==
    \/ SeedingTimerFires("t2")
    \/ \E h \in Hashes : RemoteCompletes(h)
    \/ Respond("t2")
    \/ Finish("t2")
    \/ Tick

FairSeeding ==
    /\ WF_vars(SeedingTimerFires("t2"))
    /\ WF_vars(Respond("t2"))
    /\ WF_vars(Finish("t2"))
    /\ WF_vars(Tick)
    /\ SF_vars(PauseSucceeds("t2"))

SpecSeeding == InitSeeding /\ [][NextSeeding]_vars /\ FairSeeding

\* C22: a record that is tracked and holds a stop time the clock can reach is
\* eventually stopped, given that the interval keeps firing, requests are
\* answered and the pause is answered with success again and again; and a
\* record is stopped only by a sweep whose batch holds it, at or after its stop
\* time.
C22_Observed(h) ==
    \E e \in torrentTimings :
        /\ e.hash = h /\ e.downloadCompletionTime # None
        /\ e.seedingStopTime # None /\ The(e.seedingStopTime) <= MaxTime
C22_AtSweep(h) ==
    /\ AwaitsOwnPause("t2", {"sweep"}) /\ h \in PauseBatch("t2")
    /\ \E e \in torrentTimings :
          e.hash = h /\ e.seedingStopTime # None /\ The(e.seedingStopTime) <= now
C22_EventuallyStopped ==
    /\ \A h \in Hashes : C22_Observed(h) ~> Stopped(torrentTimings, h)
    /\ [][\A h \in Hashes : C3_Turns(h) => C22_AtSweep(h)]_vars
\* a record whose stop time lay ahead when it was set is stopped
C22_Witness ==
    \E e \in torrentTimings :
        /\ e.stopped /\ e.seedingStopTime # None /\ e.downloadCompletionTime # None
        /\ The(e.seedingStopTime) > The(e.downloadCompletionTime)

(* ------------------ the claims: the session client's errors ------------ *)
\* C23: when the URL, the username or the password is missing, no request is
\* ever sent or awaited, neither a login nor a domain request: sid stays empty,
\* the remote issues no session, and every call of login, list, get, add, pause
\* or delete has returned its failure value by the end of the step that made it.
C23_Failed(f) ==
    CASE f.kind = "login" -> f.res = FALSE
      [] f.kind = "client" ->
            /\ f.nReq = 0 /\ f.codes = <<>> /\ f.nLogin = 1
            /\ f.res = Failure(f.op, "login_failed")
      [] OTHER -> FALSE
C23_NoCallUnconfigured ==
    ~Configured(cfg) =>
        /\ sid = 0 /\ remote.issued = 0 /\ remote.valid = {}
        /\ \A t \in Tasks :
              tasks[t] # <<>> =>
                  /\ Finished(tasks[t]) /\ tasks[t][1].req = NoReq
                  /\ C23_Failed(tasks[t][1])
\* with only the password missing, a pause and a list have failed side by side
C23_Witness ==
    /\ cfg = [url |-> TRUE, user |-> TRUE, pass |-> FALSE]
    /\ Finished(tasks["t1"]) /\ tasks["t1"][1].kind = "client"
    /\ tasks["t1"][1].op = "pause" /\ tasks["t1"][1].res = FALSE
    /\ Finished(tasks["t2"]) /\ tasks["t2"][1].kind = "client"
    /\ tasks["t2"][1].op = "list" /\ tasks["t2"][1].res.error # None

\* C24: sid changes only in the step in which a login receives its successful
\* answer, to the token just issued, or in which the first request of an
\* operation is answered 403, to empty.  A failed login and every other failed
\* answer (a network error, a 403 to the retried request) leave sid as it was,
\* and the operation sends no further request and starts no further login.
C24_Awaited(t) == tasks[t][Len(tasks[t])]
C24_LoginOk(t, a) ==
    /\ C24_Awaited(t).kind = "login"
    /\ a.resp.code = "ok" /\ a.resp.body = "Ok." /\ a.resp.cookie # 0
C24_Unauthorized(t, a) ==
    /\ C24_Awaited(t).kind = "client" /\ C24_Awaited(t).pc = "w_req1"
    /\ a.resp.code = "403"
C24_RequestFailed(t, a) ==
    /\ C24_Awaited(t).kind = "client" /\ C24_Awaited(t).pc \in {"w_req1", "w_req2"}
    /\ a.resp.code # "ok"
\* the operation that was waiting has returned without another request or login
C24_NoRetry(t) ==
    LET n == Len(tasks[t]) IN
    \/ Len(tasks'[t]) < n
    \/ /\ tasks'[t][n].pc = "done"
       /\ tasks'[t][n].nReq = tasks[t][n].nReq
       /\ tasks'[t][n].nLogin = tasks[t][n].nLogin
C24_Effect(t) ==
    \A a \in PauseAnswers(t) :
        (tasks'[t] # tasks[t] /\ Deliver(t, a)) =>
            IF C24_LoginOk(t, a)
            THEN sid' = a.resp.cookie /\ sid' = remote'.issued /\ sid' > remote.issued
            ELSE IF C24_Unauthorized(t, a) THEN sid' = 0
            ELSE /\ sid' = sid
                 /\ C24_RequestFailed(t, a) => C24_NoRetry(t)
                 /\ C24_Awaited(t).kind = "login" =>
                       \A k \in 1..Len(tasks'[t]) :
                           tasks'[t][k].pc \notin {"w_post", "w_req1", "w_req2"}
C24_Cause ==
    sid' # sid =>
        \E t \in Tasks :
            /\ Waiting(tasks[t])
            /\ \E a \in PauseAnswers(t) :
                  (C24_LoginOk(t, a) \/ C24_Unauthorized(t, a)) /\ Deliver(t, a)
C24_SessionChanges ==
    [][/\ C24_Cause
       /\ \A t \in Tasks : Waiting(tasks[t]) => C24_Effect(t)]_vars
\* a second token has replaced the first after a 403 and a login, and a login
\* that failed beside it has left it alone
C24_Witness ==
    /\ sid = 2
    /\ Finished(tasks["t2"]) /\ tasks["t2"][1].kind = "client"
    /\ tasks["t2"][1].codes = <<"403", "ok">>
    /\ Finished(tasks["t1"]) /\ tasks["t1"][1].kind = "login" /\ ~tasks["t1"][1].res

\* C25: whatever the remote answers to a login request or to a first or
\* retried domain request (success, 403, another error), the call goes on to its
\* next await or returns, and what it returns says success or failure: login,
\* pause and delete a boolean that is true only after a successful answer, list
\* either the torrents or an error, add a success flag with an error exactly
\* when it is false, get a torrent or nothing.
C25_LastOk(f) == f.codes # <<>> /\ f.codes[Len(f.codes)] = "ok"
C25_Says(f) ==
    CASE f.op = "list" ->
            /\ (f.res.torrents = None) # (f.res.error = None)
            /\ f.res.torrents # None <=> C25_LastOk(f)
      [] f.op = "get" ->
            /\ f.res = None \/ \E x \in Snapshots : f.res = Some(x)
            /\ f.res # None => C25_LastOk(f)
      [] f.op = "add" ->
            /\ f.res.success \in BOOLEAN
            /\ f.res.success <=> f.res.error = None
            /\ f.res.success => \E k \in 1..Len(f.codes) : f.codes[k] = "ok"
            /\ f.res.torrent # None => f.res.success
      [] OTHER ->
            /\ f.res \in BOOLEAN
            /\ f.res <=> C25_LastOk(f)
C25_Returned ==
    /\ \A t \in Tasks : tasks[t] = <<>> \/ Waiting(tasks[t]) \/ Finished(tasks[t])
    /\ \A p \in ClientFrames :
          tasks[p[1]][p[2]].pc = "done" => C25_Says(tasks[p[1]][p[2]])
    /\ \A t \in Tasks :
          (Finished(tasks[t]) /\ tasks[t][1].kind = "login")
             => tasks[t][1].res \in BOOLEAN
\* an add whose request was answered 403 and whose retry failed has returned
\* success false with an error, beside a list that failed on a network error
C25_Witness ==
    /\ Finished(tasks["t1"]) /\ tasks["t1"][1].kind = "client"
    /\ tasks["t1"][1].op = "add" /\ tasks["t1"][1].codes = <<"403", "err">>
    /\ ~tasks["t1"][1].res.success /\ tasks["t1"][1].res.error # None
    /\ Finished(tasks["t2"]) /\ tasks["t2"][1].kind = "client"
    /\ tasks["t2"][1].op = "list" /\ tasks["t2"][1].codes = <<"err">>
    /\ tasks["t2"][1].res.error # None

(* ---------------------- the seeding list on its own -------------------- *)
\* the states qBittorrent reports for the torrents of this model
QbitStates == {"downloading", "uploading", "stalledUP", "forcedUP", "queuedUP",
               "checkingUP", "pausedUP"}

\* after a successful start; each torrent is in any one of the states
InitSeedList ==
    /\ NoPending
    /\ cfg = [url |-> TRUE, user |-> TRUE, pass |-> TRUE]
    /\ seedingEnv = <<>>
    /\ sid = 1
    /\ \E sa, sb \in QbitStates :
          remote = [issued |-> 1, valid |-> {1}, created |-> 0, pushed |-> NoPushes,
                    jobs |-> [h \in Hashes |->
                        LET st == IF h = "a" THEN sa ELSE sb IN
                        Some(Snapshot(h, NameOf(h), StartTime,
                                      IF st = "downloading" THEN 50 ELSE 100, st))]]
    /\ now = StartTime
    /\ torrentTimings = {}
    /\ activeTorrentMessages = {}
    /\ started = "on"
    /\ tasks = [t \in Tasks |-> <<>>]

\* the seed commands call qbitGetSeedingTorrents()
CallGetSeedingTorrents(t) == Invoke(t, seedingFrame)

NextSeedList ==
    \/ CallGetSeedingTorrents("t1")
    \/ Respond("t1")
    \/ Finish("t1")
    \/ ExpireSessions

SpecSeedList == InitSeedList /\ [][NextSeedList]_vars

\* C26: when the list request of a getSeedingTorrents() call is answered, the
\* call returns exactly the torrents of the answered list whose state is
\* uploading, stalledUP, forcedUP, queuedUP or checkingUP, in the list's order;
\* when the list fails it returns the list's error.
C26_Seeds(torrent) ==
    torrent.state \in {"uploading", "stalledUP", "forcedUP", "queuedUP", "checkingUP"}
C26_AwaitsList(t) ==
    /\ Len(tasks[t]) = 2 /\ tasks[t][1].kind = "seeding"
    /\ tasks[t][2].pc \in {"w_req1", "w_req2"}
C26_Returns(t) ==
    \A a \in PauseAnswers(t) :
        (Finished(tasks'[t]) /\ Deliver(t, a)) =>
            IF a.resp.code = "ok"
            THEN tasks'[t][1].res =
                     [torrents |-> Some(SelectSeq(a.resp.data, C26_Seeds)), error |-> None]
            ELSE tasks'[t][1].res.torrents = None /\ tasks'[t][1].res.error # None
C26_SeedingFiltered == [][\A t \in Tasks : C26_AwaitsList(t) => C26_Returns(t)]_vars
\* what the comparison of the lower-cased state lets through: uploading alone
C26_Uploading(torrent) == torrent.state = "uploading"
C26_ReturnsUploading(t) ==
    \A a \in PauseAnswers(t) :
        (Finished(tasks'[t]) /\ Deliver(t, a)) =>
            IF a.resp.code = "ok"
            THEN tasks'[t][1].res =
                     [torrents |-> Some(SelectSeq(a.resp.data, C26_Uploading)),
                      error |-> None]
            ELSE tasks'[t][1].res.torrents = None /\ tasks'[t][1].res.error # None
C26_UploadingOnly ==
    [][\A t \in Tasks : C26_AwaitsList(t) => C26_ReturnsUploading(t)]_vars

(* ---------------------- the claims: handles and fetches ---------------- *)
\* C27: in every state, between passes and at every await of a pass, no handle
\* in activeTorrentMessages has isCompleted true; and in the step in which a
\* pass sets isCompleted on the handle it holds, that handle's message is out of
\* the Map by the time the pass is suspended again (in the push of the
\* completed or stalled text, the two branches that set the flag).
C27_NoneCompleted == \A e \in activeTorrentMessages : ~e.isCompleted
C27_Sets(t) ==
    /\ AwaitsOwnGet(t)
    /\ \E text \in {"completed", "stalled"} : PushesNow(tasks'[t], HeldMessage(t), text)
C27_CompletedIsRemoved ==
    /\ []C27_NoneCompleted
    /\ [][\A t \in Tasks : C27_Sets(t) =>
              ~ \E e \in activeTorrentMessages' : e.message = HeldMessage(t)]_vars
\* a pass has set isCompleted on the handle of message 1 and awaits the
\* completion push; the handle is out of the Map, the other handle is open
C27_Witness ==
    /\ PushesNow(tasks["t2"], 1, "completed")
    /\ remote.pushed.completed[1] = 0
    /\ ~ \E e \in activeTorrentMessages : e.message = 1
    /\ HandleOpen(activeTorrentMessages, 2)

\* C28: when the fetch of a pass fails on the network (no answer from the
\* remote about the torrent), the handle the pass holds stays open and the pass
\* does not push the `no longer found` text for it; a handle is closed after
\* that text only when the remote no longer has the torrent.
C28_FetchFails(a) == a.resp.code = "err"
C28_Kept(t) ==
    \A a \in PauseAnswers(t) :
        ( /\ C28_FetchFails(a)
          /\ HandleOpen(activeTorrentMessages, HeldMessage(t))
          /\ Deliver(t, a) ) =>
            /\ HandleOpen(activeTorrentMessages', HeldMessage(t))
            /\ ~PushesNow(tasks'[t], HeldMessage(t), "gone")
C28_Closes(t) ==
    /\ PushesNow(tasks[t], HeldMessage(t), "gone")
    /\ HandleOpen(activeTorrentMessages, HeldMessage(t))
    /\ ~HandleOpen(activeTorrentMessages', HeldMessage(t))
C28_Absent(t) == remote.jobs[tasks[t][1].cur.hash] = None
C28_FailureNotVanished ==
    [][\A t \in Tasks :
          /\ AwaitsOwnGet(t) => C28_Kept(t)
          /\ C28_Closes(t) => C28_Absent(t)]_vars

\* C29: an operation that starts while sid is set sends its request at once,
\* with that sid and without a login; one that starts while sid is empty awaits
\* exactly one login first and sends nothing yet; when that login succeeds the
\* request goes out with the new sid, and when it fails the operation returns
\* its failure value without having sent a request.
C29_Starts(t, k) ==
    /\ Len(tasks[t]) < k /\ k <= Len(tasks'[t])
    /\ tasks'[t][k].kind = "client"
C29_Started(t, k) ==
    LET f == tasks'[t][k] IN
    IF sid # 0
    THEN /\ Len(tasks'[t]) = k
         /\ f.pc = "w_req1" /\ f.nReq = 1 /\ f.nLogin = 0
         /\ f.req = [kind |-> f.op, tok |-> sid, arg |-> f.arg]
    ELSE IF Configured(cfg)
    THEN /\ Len(tasks'[t]) = k + 1
         /\ f.pc = "afterLogin1" /\ f.nReq = 0 /\ f.nLogin = 1
         /\ tasks'[t][k + 1].kind = "login" /\ tasks'[t][k + 1].pc = "w_post"
    ELSE /\ Len(tasks'[t]) = k
         /\ f.pc = "done" /\ f.nReq = 0 /\ f.nLogin = 1
         /\ f.res = Failure(f.op, "login_failed")
\* task t awaits the answer to the login its operation began with
C29_AwaitsFirstLogin(t) ==
    LET n == Len(tasks[t]) IN
    /\ n >= 2
    /\ tasks[t][n].kind = "login" /\ tasks[t][n].pc = "w_post"
    /\ tasks[t][n - 1].kind = "client" /\ tasks[t][n - 1].pc = "afterLogin1"
C29_LoggedIn(t) ==
    LET n == Len(tasks[t]) IN
    \A a \in PauseAnswers(t) :
        (tasks'[t] # tasks[t] /\ Deliver(t, a)) =>
            IF a.resp.code = "ok" /\ a.resp.body = "Ok." /\ a.resp.cookie # 0
            THEN /\ Len(tasks'[t]) = n - 1
                 /\ tasks'[t][n - 1].pc = "w_req1"
                 /\ tasks'[t][n - 1].nReq = 1 /\ tasks'[t][n - 1].nLogin = 1
                 /\ tasks'[t][n - 1].req.tok = a.resp.cookie
            ELSE \/ Len(tasks'[t]) < n - 1
                 \/ /\ Len(tasks'[t]) = n - 1
                    /\ tasks'[t][n - 1].pc = "done" /\ tasks'[t][n - 1].nReq = 0
                    /\ tasks'[t][n - 1].res =
                           Failure(tasks[t][n - 1].op, "login_failed")
C29_OneLazyLogin ==
    \A p \in ClientFrames :
        LET f == tasks[p[1]][p[2]] IN
        /\ f.nLogin <= f.nRelogin + 1
        /\ (f.nReq = 0 /\ f.pc = "done") => f.nLogin = 1
C29_LazyLogin ==
    /\ []C29_OneLazyLogin
    /\ [][\A t \in Tasks :
              /\ \A k \in 1..3 : C29_Starts(t, k) => C29_Started(t, k)
              /\ C29_AwaitsFirstLogin(t) => C29_LoggedIn(t)]_vars
\* with the settings in place, an operation that began with an empty sid has
\* returned after its one login failed, beside one that began with sid set and
\* awaits its request
C29_Witness ==
    /\ Configured(cfg)
    /\ Finished(tasks["t1"]) /\ tasks["t1"][1].kind = "client"
    /\ tasks["t1"][1].nLogin = 1 /\ tasks["t1"][1].nRelogin = 0
    /\ tasks["t1"][1].nReq = 0
    /\ Len(tasks["t2"]) = 1 /\ tasks["t2"][1].kind = "client"
    /\ tasks["t2"][1].pc = "w_req1" /\ tasks["t2"][1].nLogin = 0

(* ------------------- the claims: a record's life cycle ----------------- *)
\* C30: over every step of track, completion, reconcile, sweep and manual
\* stop, each record stays or moves forward through downloading (no completion
\* fields, not stopped), seeding (completion fields set, not stopped) and
\* stopped: a stopped record stays stopped, completion fields once set are
\* kept, and a record becomes stopped only when its completion fields are set.
C30_Downloading(e) == ~e.stopped /\ e.downloadCompletionTime = None
C30_Seeding(e) == ~e.stopped /\ e.downloadCompletionTime # None
C30_Forward(e, x) ==
    /\ e.stopped => x.stopped
    /\ e.downloadCompletionTime # None =>
          /\ x.downloadCompletionTime = e.downloadCompletionTime
          /\ x.downloadDuration = e.downloadDuration
          /\ x.seedingStopTime = e.seedingStopTime
    /\ (x.stopped /\ ~e.stopped) => C30_Seeding(e)
C30_ForwardOnly ==
    [][\A e \in torrentTimings :
          \E x \in torrentTimings' : x.hash = e.hash /\ C30_Forward(e, x)]_vars

(* ------------- the timers, a manual stop and a forgetful remote -------- *)
\* Slot t1 runs the stop-seeds confirmation, slot t2 the progress poll, slot t3
\* the seeding manager's interval; the remote may finish or lose a torrent.
NextGone ==
    \/ StopSeedsConfirmed("t1")
    \/ PollTimerFires("t2")
    \/ SeedingTimerFires("t3")
    \/ \E h \in Hashes : RemoteCompletes(h)
    \/ \E h \in Hashes : RemoteForgets(h)
    \/ \E t \in Tasks : Respond(t)
    \/ \E t \in Tasks : Finish(t)

SpecGone == InitPoll /\ [][NextGone]_vars

\* C31: while the remote has lost a torrent whose record has no completion
\* fields and is not stopped, every step leaves that record as it is, except the
\* step in which a manual stop of a batch holding the id gets its pause
\* answered; and no sweep that starts takes the id into its batch.
C31_Gone(h) ==
    /\ remote.jobs[h] = None
    /\ \E e \in torrentTimings : e.hash = h /\ C30_Downloading(e)
C31_Left(h) == \A e \in torrentTimings : e.hash = h => e \in torrentTimings'
C31_ManualStop(h) ==
    \E t \in Tasks :
        /\ AwaitsOwnPause(t, {"manual"}) /\ h \in PauseBatch(t)
        /\ tasks'[t] # tasks[t]
C31_StaysUncompleted ==
    [][\A h \in Hashes : C31_Gone(h) =>
          /\ C31_Left(h) \/ C31_ManualStop(h)
          /\ \A t \in Tasks : C5_SweepStarts(t) => h \notin C5_StartedBatch(t)]_vars
\* "a" is gone from the remote and its handle is closed, its record is as it
\* was at the start, and a pass that ran since has stopped "b"
C31_Witness ==
    /\ C31_Gone("a")
    /\ ~ \E e \in activeTorrentMessages : e.hash = "a"
    /\ Stopped(torrentTimings, "b")
    /\ Finished(tasks["t3"]) /\ tasks["t3"][1].kind = "pass"

(* --------------------- the claims: what a reconcile does --------------- *)
\* C32: when the list of a reconcile is answered, an id without a record gets
\* a fresh one only if its listed progress is below 1; a record gets its
\* completion fields only if it was there before, had them unset and the listed
\* progress is 1; every other record is left as it is.  So a torrent that is
\* already finished when it is first listed gets no record, and a sweep that
\* starts pauses only ids that have a record.
C32_Listed(a, h) ==
    {x \in {a.resp.data[i] : i \in DOMAIN a.resp.data} : x.hash = h}
C32_Fresh(x) ==
    [hash |-> x.hash, name |-> x.name, downloadStartTime |-> x.added_on,
     downloadCompletionTime |-> None, downloadDuration |-> None,
     seedingStopTime |-> None, stopped |-> FALSE]
C32_Marked(e) ==
    [e EXCEPT !.downloadCompletionTime = Some(now),
              !.downloadDuration = Some(now - e.downloadStartTime),
              !.seedingStopTime =
                  Some(now + (now - e.downloadStartTime) * SEEDING_MULTIPLIER(seedingEnv))]
C32_After(a, h) ==
    LET before == {e \in torrentTimings : e.hash = h}
        listed == C32_Listed(a, h)
    IN IF listed = {} THEN before
       ELSE LET x == CHOOSE y \in listed : TRUE IN
            IF before = {}
            THEN IF x.progress < 100 THEN {C32_Fresh(x)} ELSE {}
            ELSE LET e == CHOOSE y \in before : TRUE IN
                 IF e.downloadCompletionTime = None /\ x.progress >= 100
                 THEN {C32_Marked(e)} ELSE before
C32_Reconciled(t) ==
    \A a \in PauseAnswers(t) :
        (a.resp.code = "ok" /\ tasks'[t] # tasks[t] /\ Deliver(t, a)) =>
            \A h \in Hashes : {e \in torrentTimings' : e.hash = h} = C32_After(a, h)
C32_ReconcileTracksUnfinished ==
    [][\A t \in Tasks :
          /\ AwaitsOwnList(t) => C32_Reconciled(t)
          /\ C5_SweepStarts(t) =>
                \A h \in C5_StartedBatch(t) : \E e \in torrentTimings' : e.hash = h]_vars
\* a sweep pauses "b" alone, completed in this very second, while "a" is
\* finished on the remote and has no record
C32_Witness ==
    /\ AwaitsOwnPause("t2", {"sweep"}) /\ PauseBatch("t2") = {"b"}
    /\ remote.jobs["a"] # None /\ The(remote.jobs["a"]).progress >= 100
    /\ ~ \E e \in torrentTimings : e.hash = "a"
    /\ \E e \in torrentTimings : e.hash = "b" /\ e.downloadCompletionTime = Some(now)

(* -------------------- the claims: overlapping operations --------------- *)
\* C33: every list, get, add, pause or delete request that is in flight, a
\* first request or a retry, of any of the operations running side by side,
\* carries a non-empty sid; and the sid it carries is the one that was cached
\* when it was sent.
C33_InFlight(f) == f.kind = "client" /\ f.pc \in {"w_req1", "w_req2"}
C33_Carried ==
    \A p \in ClientFrames :
        C33_InFlight(tasks[p[1]][p[2]]) => tasks[p[1]][p[2]].req.tok # 0
C33_Sends(t, k) ==
    /\ k <= Len(tasks'[t]) /\ C33_InFlight(tasks'[t][k])
    /\ k > Len(tasks[t]) \/ tasks[t][k].nReq < tasks'[t][k].nReq
C33_TokenCarried ==
    /\ []C33_Carried
    /\ [][\A t \in Tasks : \A k \in 1..3 :
              C33_Sends(t, k) => tasks'[t][k].req.tok = sid' /\ sid' # 0]_vars
\* two operations await their requests side by side, one sent with the first
\* token and one with the second
C33_Witness ==
    /\ Len(tasks["t1"]) = 1 /\ C33_InFlight(tasks["t1"][1])
    /\ Len(tasks["t2"]) = 1 /\ C33_InFlight(tasks["t2"][1])
    /\ tasks["t1"][1].req.tok = 1 /\ tasks["t2"][1].req.tok = 2

\* C34: a 403 to a request that was sent with another sid than the one now
\* cached leaves the cached sid as it is: sid is emptied only when the rejected
\* request carried the sid that is cached when the 403 arrives.
C34_StaleRejected(t) ==
    \A a \in PauseAnswers(t) :
        ( /\ a.resp.code = "403"
          /\ C24_Awaited(t).req.tok # sid
          /\ Deliver(t, a) ) => sid' = sid
C34_NewerTokenKept ==
    [][\A t \in Tasks :
          (Waiting(tasks[t]) /\ C33_InFlight(C24_Awaited(t))) => C34_StaleRejected(t)]_vars

(* ---------------- answers that are under way while a delete runs ------- *)
\* InitPoll with a remote that can form the answer to a list or a fetch before
\* that answer is delivered: drafts[t] holds the torrents the answer to task
\* t's request was formed from
InitStale ==
    /\ NoPending
    /\ cfg = [url |-> TRUE, user |-> TRUE, pass |-> TRUE]
    /\ seedingEnv = <<>>
    /\ sid = 1
    /\ remote = [issued |-> 1, valid |-> {1}, created |-> 2,
                 pushed |-> [completed |-> [m \in 1..MaxMsg |-> 0], failed |-> {}],
                 drafts |-> [t \in Tasks |-> None],
                 jobs |-> [h \in Hashes |->
                     Some(Snapshot(h, NameOf(h), StartTime, 0, "downloading"))]]
    /\ now = StartTime
    /\ torrentTimings =
          {[hash |-> h, name |-> NameOf(h), downloadStartTime |-> StartTime,
            downloadCompletionTime |-> None, downloadDuration |-> None,
            seedingStopTime |-> None, stopped |-> FALSE] : h \in Hashes}
    /\ activeTorrentMessages = {OpenHandle(h) : h \in Hashes}
    /\ started = "on"
    /\ tasks = [t \in Tasks |-> <<>>]

\* the remote forms its answer to the list or fetch task t awaits
RemoteDrafts(t) ==
    /\ Waiting(tasks[t])
    /\ tasks[t][Len(tasks[t])].req.kind \in {"list", "get"}
    /\ remote.drafts[t] = None
    /\ remote' = [remote EXCEPT !.drafts[t] = Some(remote.jobs)]
    /\ UNCHANGED <<cfg, seedingEnv, pending, sid, now, torrentTimings,
                   activeTorrentMessages, started, tasks>>

\* the answer formed earlier reaches task t
RespondDrafted(t) ==
    /\ Waiting(tasks[t])
    /\ remote.drafts[t] # None
    /\ \E a \in Answers(tasks[t][Len(tasks[t])].req,
                         [remote EXCEPT !.jobs = The(remote.drafts[t])], now) :
          Deliver(t, [a EXCEPT !.remote = [remote EXCEPT !.drafts[t] = None]])
    /\ UNCHANGED <<cfg, seedingEnv, now>>

\* the remote answers and the answer arrives at once
RespondAtOnce(t) == remote.drafts[t] = None /\ Respond(t)

\* Slot t1 runs the delete confirmation, slot t2 the progress poll, slot t3 the
\* seeding manager's interval.
NextStale ==
    \/ DeleteConfirmed("t1")
    \/ PollTimerFires("t2")
    \/ SeedingTimerFires("t3")
    \/ \E h \in Hashes : RemoteCompletes(h)
    \/ \E t \in {"t2", "t3"} : RemoteDrafts(t)
    \/ \E t \in {"t2", "t3"} : RespondDrafted(t)
    \/ \E t \in Tasks : RespondAtOnce(t)
    \/ \E t \in Tasks : Finish(t)

SpecStale == InitStale /\ [][NextStale]_vars

\* C35: once a torrent is gone from the remote and has no record, no step gives
\* it a record again while it stays gone: not the poll, not the reconcile, not a
\* pass that was awaiting its answer while the delete ran.
C35_NoRecord(tt, h) == ~ \E e \in tt : e.hash = h
C35_DeletedStaysUntracked ==
    [][\A h \in Hashes :
          ( /\ remote.jobs[h] = None /\ remote'.jobs[h] = None
            /\ C35_NoRecord(torrentTimings, h) ) => C35_NoRecord(torrentTimings', h)]_vars
\* C36: once the completion text, the terminal update Discord keeps a log of,
\* has been accepted for a handle's message, no step of any pass starts
\* another push to that message, whichever text it carries; this is the
\* completed case of the claim, which says the same of the stalled and the
\* no-longer-found texts.
C36_TerminalPushed(message) ==
    remote.pushed.completed[message] >= 1 /\ message \notin remote.pushed.failed
C36_StartsPush(t, message) ==
    \E text \in Texts :
        /\ PushesNow(tasks'[t], message, text)
        /\ ~PushesNow(tasks[t], message, text)
C36_TerminalIsLast ==
    [][\A t \in Tasks : \A message \in 1..MaxMsg :
          C36_TerminalPushed(message) => ~C36_StartsPush(t, message)]_vars

\* C37: the step that ends a delete confirmation removes the tracking record
\* and the handle of every hash of the request, and nothing else, when it is
\* the remote's success answer to the delete request; every other answer the
\* handler receives (a failed login, a failed delete) leaves both tables as
\* they were; removeTorrentTracking of a hash without a record returns the
\* table unchanged.
C37_Confirming(t) ==
    /\ Waiting(tasks[t])
    /\ tasks[t][1].kind = "deleteConfirm"
C37_Succeeds(t, a) ==
    tasks[t][Len(tasks[t])].req.kind = "delete" /\ a.resp.code = "ok"
C37_Without(m, hashes) == {e \in m : e.hash \notin hashes}
C37_Outcome(t) ==
    \A a \in PauseAnswers(t) :
        Deliver(t, a) =>
            IF C37_Succeeds(t, a)
            THEN /\ torrentTimings' = C37_Without(torrentTimings, tasks[t][1].hashes)
                 /\ activeTorrentMessages' =
                        C37_Without(activeTorrentMessages, tasks[t][1].hashes)
            ELSE /\ torrentTimings' = torrentTimings
                 /\ activeTorrentMessages' = activeTorrentMessages
C37_RemoveUnknown ==
    \A h \in Hashes :
        C35_NoRecord(torrentTimings, h) =>
            removeTorrentTracking(torrentTimings, h) = torrentTimings
C37_DeleteOutcome ==
    []C37_RemoveUnknown /\ [][\A t \in Tasks : C37_Confirming(t) => C37_Outcome(t)]_vars
\* a torrent was added and got its progress message, and a confirmed delete
\* has since emptied the remote and both tables
C37_Witness ==
    /\ remote.created >= 1
    /\ \A h \in Hashes : remote.jobs[h] = None
    /\ torrentTimings = {} /\ activeTorrentMessages = {}
    /\ tasks["t3"] = <<>>

\* C38: an addTorrentByMagnet that has returned success, whether its first
\* request was accepted or the one retry after a 403 was, carries in its
\* result the torrent the remote now has under the magnet's hash.
C38_AddSucceeded(f) ==
    /\ f.kind = "client" /\ f.op = "add" /\ f.pc = "done"
    /\ f.codes \in {<<"ok">>, <<"403", "ok">>}
    /\ f.res.success
C38_RemoteHas(f) == remote.jobs[TrueHash(f.arg)] # None
C38_SuccessCarriesTorrent ==
    \A t \in Tasks :
        ( /\ Finished(tasks[t])
          /\ C38_AddSucceeded(tasks[t][1])
          /\ C38_RemoteHas(tasks[t][1]) ) =>
            tasks[t][1].res.torrent = remote.jobs[TrueHash(tasks[t][1].arg)]

\* C39: every record with its completion fields set has a download duration
\* of at least zero and a seeding stop time no earlier than its completion
\* time, whatever added_on the snapshots carried, an added_on after the local
\* clock's second of completion included.
C39_Sound(e) ==
    /\ The(e.downloadDuration) >= 0
    /\ The(e.seedingStopTime) >= The(e.downloadCompletionTime)
C39_DurationsNonNegative ==
    \A e \in torrentTimings : e.downloadCompletionTime # None => C39_Sound(e)

(* ------------- the confirm and cancel buttons of a pending request ----- *)
\* The bot after both magnets were added and torrent a finished at once, the
\* poll having reported it and closed its handle; then /delete was given and
\* both torrents selected (interaction i1), and /stopallseeds was given, which
\* found a seeding (interaction i2). Both confirmations are still open.
InitConfirm ==
    /\ cfg = [url |-> TRUE, user |-> TRUE, pass |-> TRUE]
    /\ seedingEnv = <<>>
    /\ sid = 1
    /\ remote = [issued |-> 1, valid |-> {1}, created |-> 2,
                 pushed |-> [completed |-> [m \in 1..MaxMsg |-> IF m = 1 THEN 1 ELSE 0],
                             failed |-> {}],
                 jobs |-> [h \in Hashes |->
                     IF h = "a"
                     THEN Some(Snapshot(h, NameOf(h), StartTime, 100, "uploading"))
                     ELSE Some(Snapshot(h, NameOf(h), StartTime, 0, "downloading"))]]
    /\ now = StartTime
    /\ torrentTimings =
          {[hash |-> "a", name |-> NameOf("a"), downloadStartTime |-> StartTime,
            downloadCompletionTime |-> Some(StartTime), downloadDuration |-> Some(0),
            seedingStopTime |-> Some(StartTime), stopped |-> FALSE],
           [hash |-> "b", name |-> NameOf("b"), downloadStartTime |-> StartTime,
            downloadCompletionTime |-> None, downloadDuration |-> None,
            seedingStopTime |-> None, stopped |-> FALSE]}
    /\ activeTorrentMessages = {OpenHandle("b")}
    /\ started = "on"
    /\ pendingDeletions = {[id |-> "i1", hashes |-> Hashes]}
    /\ pendingSeedStops = {[id |-> "i2", hashes |-> {"a"}]}
    /\ tasks = [t \in Tasks |-> <<>>]

\* a click on a button the bot has shown: its customId carries the id
DeleteConfirmClicked(t) == Invoke(t, confirmFrame("delete", "i1"))
DeleteCancelClicked(t) == Invoke(t, cancelFrame("delete", "i1"))
StopSeedsConfirmClicked(t) == Invoke(t, confirmFrame("stopseeds", "i2"))
StopSeedsCancelClicked(t) == Invoke(t, cancelFrame("stopseeds", "i2"))

\* Slots t1 and t2 take the clicks on the confirm buttons, slot t3 those on
\* the cancel buttons: Discord delivers every click as an interaction of its
\* own, whether or not the handler of an earlier one has returned.
NextConfirm ==
    \/ \E t \in {"t1", "t2"} : DeleteConfirmClicked(t)
    \/ \E t \in {"t1", "t2"} : StopSeedsConfirmClicked(t)
    \/ DeleteCancelClicked("t3")
    \/ StopSeedsCancelClicked("t3")
    \/ \E t \in Tasks : Respond(t)

SpecConfirm == InitConfirm /\ [][NextConfirm]_vars

\* C40: a confirm handler that finds no pending entry under its interaction
\* id answers `expired` and sends nothing; a cancel takes the entry out in the
\* step it starts in; and a confirm that starts while another confirm of the
\* same request is between its guard and its return is turned away as expired,
\* so that one pending request leads to one delete or pause call.
C40_Confirm(f, which, id) ==
    f.kind = "confirm" /\ f.which = which /\ f.id = id
C40_Starts(t, which, id) ==
    tasks[t] = <<>> /\ tasks'[t] # <<>> /\ C40_Confirm(tasks'[t][1], which, id)
C40_UnderWay(t, which, id) ==
    /\ tasks[t] # <<>> /\ C40_Confirm(tasks[t][1], which, id)
    /\ tasks[t][1].stage # "expired"
C40_Entry(which, id) ==
    PendingGet(IF which = "delete" THEN pendingDeletions ELSE pendingSeedStops, id)
C40_Expired(t) ==
    /\ Len(tasks'[t]) = 1 /\ tasks'[t][1].stage = "expired"
    /\ tasks'[t][1].req = [kind |-> "reply"]
C40_Guarded(t, which, id) ==
    (C40_Starts(t, which, id) /\ C40_Entry(which, id) = None) => C40_Expired(t)
C40_Cancelled(t, which, id) ==
    ( /\ tasks[t] = <<>> /\ tasks'[t] # <<>>
      /\ tasks'[t][1].kind = "cancel"
      /\ tasks'[t][1].which = which /\ tasks'[t][1].id = id ) =>
        PendingGet(IF which = "delete" THEN pendingDeletions'
                                       ELSE pendingSeedStops', id) = None
C40_SecondRejected(t, which, id) ==
    ( /\ C40_Starts(t, which, id)
      /\ \E u \in Tasks \ {t} : C40_UnderWay(u, which, id) ) => C40_Expired(t)
C40_Requests == {<<"delete", "i1">>, <<"stopseeds", "i2">>}
C40_SentOnce ==
    [][\A t \in Tasks : \A r \in C40_Requests :
          /\ C40_Guarded(t, r[1], r[2])
          /\ C40_Cancelled(t, r[1], r[2])
          /\ C40_SecondRejected(t, r[1], r[2])]_vars

====
